---- MODULE Spec2Model ----
(***************************************************************************)
(* Beam n8n node: the batch dispatcher Beam.execute and the resource       *)
(* executors it routes to.  One behaviour is one call of Beam.execute on a *)
(* batch of input items; item indices are 0-based as in the source.        *)
(***************************************************************************)
EXTENDS Integers, Sequences, FiniteSets, TLC

\* ------------------------------------------------------------------ bounds
MaxItems == 3
MaxTimeout == 2

\* --------------------------------------------------------- program constants
DefaultTimeout == 120

\* `undefined` bound to a numeric parameter (a missing positional argument)
Undefined == 0 - 1

\* ------------------------------------------------------------------ addresses
\* An address string is either a 40-hex-digit string in some letter case or
\* something that is not an address at all.
AddrChecksum == "0xAbCd"
AddrLower    == "0xabcd"
AddrGarbage  == "not-an-address"

isValidAddressNonEmpty(a) == a # ""

\* ethers.isAddress: accepts the checksummed and the all-lowercase spelling
isValidAddress(a) == a \in {AddrChecksum, AddrLower}

\* ethers.getAddress: the checksummed spelling of a valid address
getChecksumAddress(a) == IF a \in {AddrChecksum, AddrLower} THEN AddrChecksum ELSE a

\* ------------------------------------------------------------------ resources
SigIndexOp == {"wallet", "nft", "marketplace", "minting", "gaming", "meritCircle",
               "bridge", "dex", "staking", "events", "player", "asset", "utility"}
SigClientOpIndex == {"block", "transaction", "contract"}
SigItemsOp == {"collection"}

Resources == SigIndexOp \cup SigClientOpIndex \cup SigItemsOp

UnknownResource == "noSuchResource"
UnknownOp == "noSuchOperation"

\* executors that build a BeamClient from the beamNetwork credentials first
UsesBeamClient == {"wallet", "nft", "minting", "meritCircle", "bridge", "dex",
                   "staking", "events", "asset", "utility"}
\* executors that ask the host for the sphereMarketplaceApi credentials first
UsesSphereClient == {"marketplace", "collection"}

\* the operations of each executor that the model covers
OpsOf(r) ==
    CASE r = "wallet" -> {"getBalance", "getWrappedBalance", "getTokenBalances",
                          "transferBeam", "transferToken", "validateAddress",
                          "wrapBeam", "unwrapBeam", "getWalletNfts",
                          "getTransactionHistory"}
      [] r = "staking" -> {"getStakingInfo", "getDelegationInfo"}
      [] r = "meritCircle" -> {"getMcBalance"}
      [] r = "nft" -> {"getNftInfo", "getNftsByOwner"}
      [] r = "events" -> {"getEvents"}
      [] r = "gaming" -> {"getGameInfo"}
      [] r = "transaction" -> {"sendTransaction", "getTransaction",
                               "getTransactionReceipt", "waitForTransaction"}
      [] r = "block" -> {"getBlock"}
      [] r = "contract" -> {"readContract"}
      [] r = "collection" -> {"getCollectionInfo"}
      [] OTHER -> {}

\* ------------------------------------------------------------------ executors
\* What one operation of an executor does between reading its parameters and
\* returning: the address checks it makes (in order, with the message each
\* raises), the transport calls it awaits (in order, or jointly when fanned
\* out), the confirmation wait a state-changing call is followed by, whether
\* the address parameter is echoed in the result and which timestamp field
\* the result carries.
NoPlan ==
    [known |-> FALSE, checks |-> <<>>, calls |-> <<>>, fanout |-> FALSE,
     confirm |-> "", echo |-> FALSE, stamp |-> "none"]

executeWallet(op) ==
    CASE op = "getBalance" ->
           [known |-> TRUE,
            checks |-> << [field |-> "address", msg |-> "Invalid address format"] >>,
            calls |-> << "getBalance" >>, fanout |-> FALSE, confirm |-> "",
            echo |-> TRUE, stamp |-> "iso"]
      [] op = "getWrappedBalance" ->
           [known |-> TRUE,
            checks |-> << [field |-> "address", msg |-> "Invalid address format"] >>,
            calls |-> << "getWrappedBeamBalance" >>, fanout |-> FALSE, confirm |-> "",
            echo |-> TRUE, stamp |-> "iso"]
      [] op = "getTokenBalances" ->
           [known |-> TRUE,
            checks |-> << [field |-> "address", msg |-> "Invalid address format"] >>,
            calls |-> << "getBalance", "getWrappedBeamBalance" >>, fanout |-> TRUE,
            confirm |-> "", echo |-> TRUE, stamp |-> "iso"]
      [] op = "transferBeam" ->
           [known |-> TRUE,
            checks |-> << [field |-> "address", msg |-> "Invalid recipient address format"] >>,
            calls |-> << "transferBeam" >>, fanout |-> FALSE, confirm |-> "tx.wait",
            echo |-> TRUE, stamp |-> "iso"]
      [] op = "transferToken" ->
           [known |-> TRUE,
            checks |-> << [field |-> "address", msg |-> "Invalid recipient address format"],
                          [field |-> "tokenAddress", msg |-> "Invalid token address format"] >>,
            calls |-> << "getTokenInfo", "transferToken" >>, fanout |-> FALSE,
            confirm |-> "tx.wait", echo |-> TRUE, stamp |-> "iso"]
      [] op = "validateAddress" ->
           [known |-> TRUE, checks |-> <<>>, calls |-> <<>>, fanout |-> FALSE,
            confirm |-> "", echo |-> TRUE, stamp |-> "iso"]
      [] op = "wrapBeam" ->
           [known |-> TRUE, checks |-> <<>>, calls |-> << "wrapBeam" >>, fanout |-> FALSE,
            confirm |-> "tx.wait", echo |-> FALSE, stamp |-> "iso"]
      [] op = "unwrapBeam" ->
           [known |-> TRUE, checks |-> <<>>, calls |-> << "unwrapBeam" >>, fanout |-> FALSE,
            confirm |-> "tx.wait", echo |-> FALSE, stamp |-> "iso"]
      [] op \in {"getWalletNfts", "getTransactionHistory"} ->
           [known |-> TRUE, checks |-> <<>>, calls |-> <<>>, fanout |-> FALSE,
            confirm |-> "", echo |-> TRUE, stamp |-> "iso"]
      [] OTHER -> NoPlan

executeStaking(op) ==
    CASE op = "getStakingInfo" ->
           [known |-> TRUE, checks |-> <<>>, calls |-> << "getBalance" >>,
            fanout |-> FALSE, confirm |-> "", echo |-> TRUE, stamp |-> "iso"]
      [] op = "getDelegationInfo" ->
           [known |-> TRUE, checks |-> <<>>, calls |-> <<>>,
            fanout |-> FALSE, confirm |-> "", echo |-> TRUE, stamp |-> "iso"]
      [] OTHER -> NoPlan

executeMeritCircle(op) ==
    CASE op = "getMcBalance" ->
           [known |-> TRUE, checks |-> <<>>, calls |-> << "getTokenBalance" >>,
            fanout |-> FALSE, confirm |-> "", echo |-> TRUE, stamp |-> "iso"]
      [] OTHER -> NoPlan

executeNft(op) ==
    CASE op = "getNftInfo" ->
           [known |-> TRUE, checks |-> <<>>,
            calls |-> << "getNftOwner", "getNftTokenUri" >>,
            fanout |-> FALSE, confirm |-> "", echo |-> TRUE, stamp |-> "iso"]
      [] op = "getNftsByOwner" ->
           [known |-> TRUE, checks |-> <<>>, calls |-> <<>>,
            fanout |-> FALSE, confirm |-> "", echo |-> TRUE, stamp |-> "iso"]
      [] OTHER -> NoPlan

executeEvents(op) ==
    CASE op = "getEvents" ->
           [known |-> TRUE, checks |-> <<>>, calls |-> << "getEvents" >>,
            fanout |-> FALSE, confirm |-> "", echo |-> TRUE, stamp |-> "iso"]
      [] OTHER -> NoPlan

executeGaming(op) ==
    CASE op = "getGameInfo" ->
           [known |-> TRUE, checks |-> <<>>, calls |-> <<>>,
            fanout |-> FALSE, confirm |-> "", echo |-> FALSE, stamp |-> "iso"]
      [] OTHER -> NoPlan

executeTransaction(op) ==
    CASE op = "sendTransaction" ->
           [known |-> TRUE,
            checks |-> << [field |-> "address", msg |-> "Invalid address"] >>,
            calls |-> << "sendTransaction" >>, fanout |-> FALSE,
            confirm |-> "waitForTransaction", echo |-> FALSE, stamp |-> "iso"]
      [] op = "getTransaction" ->
           [known |-> TRUE, checks |-> <<>>, calls |-> << "getTransaction" >>,
            fanout |-> FALSE, confirm |-> "", echo |-> FALSE, stamp |-> "none"]
      [] op = "getTransactionReceipt" ->
           [known |-> TRUE, checks |-> <<>>, calls |-> << "getTransactionReceipt" >>,
            fanout |-> FALSE, confirm |-> "", echo |-> FALSE, stamp |-> "none"]
      [] op = "waitForTransaction" ->
           [known |-> TRUE, checks |-> <<>>, calls |-> << "waitForTransaction" >>,
            fanout |-> FALSE, confirm |-> "", echo |-> FALSE, stamp |-> "iso"]
      [] OTHER -> NoPlan

executeBlock(op) ==
    CASE op = "getBlock" ->
           [known |-> TRUE, checks |-> <<>>, calls |-> << "getBlock" >>,
            fanout |-> FALSE, confirm |-> "", echo |-> FALSE, stamp |-> "block"]
      [] OTHER -> NoPlan

executeContract(op) ==
    CASE op = "readContract" ->
           [known |-> TRUE, checks |-> <<>>, calls |-> << "getChainId", "readContract" >>,
            fanout |-> FALSE, confirm |-> "", echo |-> TRUE, stamp |-> "iso"]
      [] OTHER ->
           [known |-> FALSE, checks |-> <<>>, calls |-> << "getChainId" >>,
            fanout |-> FALSE, confirm |-> "", echo |-> FALSE, stamp |-> "none"]

Plan(r, op) ==
    CASE r = "wallet" -> executeWallet(op)
      [] r = "staking" -> executeStaking(op)
      [] r = "meritCircle" -> executeMeritCircle(op)
      [] r = "nft" -> executeNft(op)
      [] r = "events" -> executeEvents(op)
      [] r = "gaming" -> executeGaming(op)
      [] r = "transaction" -> executeTransaction(op)
      [] r = "block" -> executeBlock(op)
      [] r = "contract" -> executeContract(op)
      [] OTHER -> NoPlan

\* the message of the executor's `default:` branch
DefaultMessage(r) ==
    IF r \in {"wallet", "nft"} THEN "Unsupported operation"
    ELSE IF r = "collection" THEN "Operation not supported"
    ELSE "Unknown operation"

\* ------------------------------------------------------------------ items
\* the parameters of one input item, as the host's parameter lookup returns
\* them for that item
AddressValues == {AddrChecksum, AddrLower, AddrGarbage}
\* an operation that reads two addresses is given a valid and an invalid one for each
TokenAddressValues == {AddrChecksum, AddrGarbage}

\* operations that read the second address parameter (tokenAddress)
UsesTokenAddress(r, op) == r = "wallet" /\ op = "transferToken"
\* operations that read options.waitForConfirmation
UsesWaitOption(r, op) ==
    \/ r = "wallet" /\ op \in {"transferBeam", "transferToken", "wrapBeam", "unwrapBeam"}
    \/ r = "transaction" /\ op = "sendTransaction"
\* operations that read waitOptions.timeout
UsesTimeout(r, op) == r = "transaction" /\ op = "waitForTransaction"

\* operations that read the (first) address parameter
UsesAddress(r, op) == Plan(r, op).echo \/ Plan(r, op).checks # <<>>

ItemsFor(r, op) ==
    [address : IF UsesTokenAddress(r, op) THEN TokenAddressValues
               ELSE IF UsesAddress(r, op) THEN AddressValues ELSE {AddrChecksum},
     tokenAddress : IF UsesTokenAddress(r, op) THEN TokenAddressValues ELSE {AddrChecksum},
     waitForConfirmation : IF UsesWaitOption(r, op) THEN BOOLEAN ELSE {TRUE},
     timeout : IF UsesTimeout(r, op) THEN 1..MaxTimeout ELSE {0}]

\* ------------------------------------------------------------------ state
VARIABLES
    resource,        \* getNodeParameter('resource', 0)
    operation,       \* getNodeParameter('operation', 0)
    continueOnFail,  \* this.continueOnFail()
    items,           \* this.getInputData(): item index -> that item's parameters
    i,               \* the loop variable of Beam.execute
    pc,              \* where Beam.execute is: "loop", "await", "done", "thrown"
    returnData,      \* the entries pushed so far
    thrown,          \* the error Beam.execute rejected with ("" while none)
    frames,          \* item index -> the executor invocation made for that item
    rpcLog,          \* transport methods invoked, each with the invoking item
    orphans,         \* transport calls still in flight that nobody awaits any more
    join,            \* one `await Promise.all([...])` of independent reads
    trigger,         \* BeamTrigger: workflow static data, the chain, the poll in progress
    restCall,        \* one call of a REST client method
    calc,            \* one call of a pure helper: its arguments and what it returned
    txn              \* one state-changing operation: its steps, what it submitted, the chain

dispatchVars == <<resource, operation, continueOnFail, items, i, pc, returnData, thrown,
                  frames, rpcLog, orphans>>

nonDispatchVars == <<join, trigger, restCall, calc, txn>>

vars == <<dispatchVars, nonDispatchVars>>

N == Cardinality(DOMAIN items)

NoItem == [address |-> "", tokenAddress |-> "", waitForConfirmation |-> TRUE, timeout |-> 0]

NoOut ==
    [type |-> "none", error |-> "", resource |-> "", operation |-> "", address |-> "",
     checksumAddress |-> "", status |-> "", txHash |-> "", timestamp |-> "none"]

NoFrame ==
    [st |-> "none", client |-> "none", operation |-> "", itemIndex |-> Undefined,
     itemsArg |-> Undefined, params |-> NoItem, phase |-> "new", todo |-> <<>>,
     pending |-> {}, elapsed |-> 0, receipt |-> "none", out |-> NoOut]

\* the Error an executor (or the dispatcher's default branch) throws
Thrown(msg) == [NoOut EXCEPT !.type = "thrown", !.error = msg]

\* the record an operation returns
Result(r, op, p, status) ==
    [type |-> "result", error |-> "", resource |-> r, operation |-> op,
     address |-> IF Plan(r, op).echo THEN p.address ELSE "",
     checksumAddress |->
         IF r = "wallet" /\ op = "validateAddress"
         THEN (IF isValidAddress(p.address) THEN getChecksumAddress(p.address) ELSE "null")
         ELSE "",
     status |-> status,
     txHash |-> IF Plan(r, op).confirm # "" THEN "tx.hash" ELSE "",
     timestamp |-> Plan(r, op).stamp]

\* getTransactionReceipt without a receipt: the `pending` record
PendingReceipt(r, op) ==
    [Result(r, op, NoItem, "pending") EXCEPT !.timestamp = "iso"]

\* the record of waitForTransaction's catch block
TimeoutResult(r, op) == Result(r, op, NoItem, "timeout")

\* executeCollection's returnData when its loop body never ran
EmptyArray(r, op) ==
    [NoOut EXCEPT !.type = "array", !.resource = r, !.operation = op]

\* nothing awaited jointly, no trigger, no REST call, no helper call
NoJoin == [site |-> "none"]
NoTrigger == [triggerType |-> "none"]
NoRest == [client |-> "none"]
NoCalc == [fn |-> "none"]
NoTxn == [op |-> "none"]

\* ------------------------------------------------------------------ dispatcher
\* executeX.call(this, i, operation): the two positional arguments land in the
\* executor's first two parameters, whatever those are declared to be
Bind(r, a1, a2) ==
    IF r \in SigIndexOp
    THEN [NoFrame EXCEPT !.st = "running", !.itemIndex = a1, !.operation = a2]
    ELSE IF r \in SigClientOpIndex
    THEN [NoFrame EXCEPT !.st = "running", !.client = "number", !.operation = a2]
    ELSE [NoFrame EXCEPT !.st = "running", !.itemsArg = a1, !.operation = a2]

\* a call with the arguments the executor's signature declares
BindDeclared(r, k, op) ==
    [NoFrame EXCEPT !.st = "running", !.client = "BeamClient", !.operation = op,
                    !.itemIndex = k]

AfterCallNotAwaited(k) == "loop"

\* `result = await executeX.call(...)`: Beam.execute is suspended until the
\* executor settles
AfterCall(k) == "await"

EntryPairedWithFirst(json, k) == [json |-> json, pairedItem |-> 0]

\* the entry pushed for item k
Entry(json, k) == [json |-> json, pairedItem |-> k]

CatchAlwaysContinues(cof) == TRUE

\* if (this.continueOnFail()) { push; continue } throw error
CatchContinues(cof) == cof

\* the json of the catch block's entry
ErrorJson(err) ==
    [NoOut EXCEPT !.type = "error", !.error = err.error, !.resource = resource,
                  !.operation = operation]

\* what Beam.execute does when the executor of item k settled with `out`
Settle(k, out) ==
    IF out.type # "thrown"
    THEN /\ returnData' = Append(returnData, Entry(out, k))
         /\ i' = k + 1
         /\ pc' = "loop"
         /\ UNCHANGED thrown
    ELSE IF CatchContinues(continueOnFail)
    THEN /\ returnData' = Append(returnData, Entry(ErrorJson(out), k))
         /\ i' = k + 1
         /\ pc' = "loop"
         /\ UNCHANGED thrown
    ELSE /\ thrown' = out.error
         /\ pc' = "thrown"
         /\ UNCHANGED <<returnData, i>>

\* the executor of item k settles with `out`, and Beam.execute resumes
Finish(k, f, out) ==
    /\ frames' = [frames EXCEPT ![k] =
                    [f EXCEPT !.st = IF out.type = "thrown" THEN "threw" ELSE "returned",
                              !.phase = "end", !.pending = {}, !.todo = <<>>,
                              !.elapsed = 0, !.out = out]]
    /\ Settle(k, out)

\* ------------------------------------------------------------------ host
\* getNodeParameter(name, itemIndex): the items whose parameters the lookup can
\* answer with; with `undefined` as the index the host decides
ParamIndices(idx) == IF idx \in DOMAIN items THEN {idx} ELSE DOMAIN items

\* credential types the node description declares
DeclaredCredentials == {"beamNetwork", "beamApi", "sphereMarketplace"}

\* ------------------------------------------------------------------ transport
\* calls that may answer null
Nullable == {"getTransaction", "getTransactionReceipt", "getBlock"}

Outcomes(m) == IF m \in Nullable THEN {"value", "null", "fail"} ELSE {"value", "fail"}

Calls(k, ms) == {[item |-> k, method |-> m] : m \in ms}

\* the status an operation derives from a receipt
ReceiptStatus(r, good) ==
    IF good THEN (IF r = "transaction" THEN "confirmed" ELSE "success") ELSE "failed"

\* (waitOptions.timeout || 120)
EffectiveTimeout(p) == IF p.timeout = 0 THEN DefaultTimeout ELSE p.timeout

\* ------------------------------------------------------------------ actions
\* for (let i = 0; i < items.length; i++) { switch (resource) ... }
Dispatch ==
    /\ pc = "loop"
    /\ i < N
    /\ IF resource \notin Resources
       THEN /\ Settle(i, Thrown("Unknown resource"))
            /\ UNCHANGED frames
       ELSE /\ frames' = [frames EXCEPT ![i] = Bind(resource, i, operation)]
            /\ pc' = AfterCall(i)
            /\ i' = IF AfterCall(i) = "await" THEN i ELSE i + 1
            /\ UNCHANGED <<returnData, thrown>>
    /\ UNCHANGED <<resource, operation, continueOnFail, items, rpcLog, orphans>>
    /\ UNCHANGED nonDispatchVars

\* return [returnData]
Return ==
    /\ pc = "loop"
    /\ i >= N
    /\ \A k \in DOMAIN frames : frames[k].st # "running"
    /\ pc' = "done"
    /\ UNCHANGED <<resource, operation, continueOnFail, items, i, returnData, thrown,
                   frames, rpcLog, orphans>>
    /\ UNCHANGED nonDispatchVars

\* executeCollection / executeMarketplace up to their first suspension
StartSphere(k) ==
    /\ resource \in UsesSphereClient
    /\ frames[k].st = "running"
    /\ frames[k].phase = "new"
    /\ \E granted \in (IF "sphereMarketplaceApi" \in DeclaredCredentials
                       THEN {TRUE} ELSE BOOLEAN) :
         LET f == [frames[k] EXCEPT !.client = "SphereApiClient"] IN
         IF ~granted
         THEN Finish(k, frames[k], Thrown("credentials"))
         ELSE IF resource = "collection"
         THEN \* for (let i = 0; i < items.length; i++) with items bound to a number
              Finish(k, f, EmptyArray(resource, f.operation))
         ELSE Finish(k, f, Thrown(DefaultMessage(resource)))
    /\ UNCHANGED <<resource, operation, continueOnFail, items, rpcLog, orphans>>
    /\ UNCHANGED nonDispatchVars

\* every other executor from its entry to its first suspension or its end
StartExecutor(k) ==
    /\ resource \in Resources \ UsesSphereClient
    /\ frames[k].st = "running"
    /\ frames[k].phase = "new"
    /\ \E j \in ParamIndices(frames[k].itemIndex) :
         LET f0 == frames[k]
             P == Plan(resource, f0.operation)
             p == items[j]
             f == [f0 EXCEPT !.params = p,
                             !.client = IF resource \in UsesBeamClient
                                        THEN "BeamClient" ELSE f0.client]
             usable == f.client = "BeamClient"
             bad == {n \in 1..Len(P.checks) : ~isValidAddress(p[P.checks[n].field])}
             first == CHOOSE n \in bad : \A n2 \in bad : n <= n2
             todo == P.calls \o (IF P.confirm # "" /\ p.waitForConfirmation
                                 THEN << P.confirm >> ELSE <<>>)
             isWait == resource = "transaction" /\ f.operation = "waitForTransaction"
         IN
         IF ~P.known /\ todo = <<>>
         THEN Finish(k, f, Thrown(DefaultMessage(resource))) /\ UNCHANGED <<rpcLog>>
         ELSE IF P.checks # <<>> /\ ~usable
         THEN Finish(k, f, Thrown("TypeError")) /\ UNCHANGED <<rpcLog>>
         ELSE IF bad # {}
         THEN Finish(k, f, Thrown(P.checks[first].msg)) /\ UNCHANGED <<rpcLog>>
         ELSE IF todo = <<>>
         THEN Finish(k, f, Result(resource, f.operation, p, "")) /\ UNCHANGED <<rpcLog>>
         ELSE IF ~usable
         THEN (IF isWait
               THEN Finish(k, f, TimeoutResult(resource, f.operation))
               ELSE Finish(k, f, Thrown("TypeError"))) /\ UNCHANGED <<rpcLog>>
         ELSE LET now == IF P.fanout THEN {todo[n] : n \in 1..Len(todo)} ELSE {Head(todo)}
              IN /\ frames' = [frames EXCEPT ![k] =
                        [f EXCEPT !.phase = IF isWait THEN "race" ELSE "calls",
                                  !.pending = now,
                                  !.todo = IF P.fanout THEN <<>> ELSE Tail(todo)]]
                 /\ rpcLog' = rpcLog \cup Calls(k, now)
                 /\ UNCHANGED <<i, pc, returnData, thrown>>
    /\ UNCHANGED <<resource, operation, continueOnFail, items, orphans>>
    /\ UNCHANGED nonDispatchVars

\* an awaited transport call of item k's executor answers
TransportReturn(k, m, outcome) ==
    /\ frames[k].st = "running"
    /\ frames[k].phase = "calls"
    /\ m \in frames[k].pending
    /\ outcome \in Outcomes(m)
    /\ LET f == frames[k]
           P == Plan(resource, f.operation)
           rest == f.pending \ {m}
       IN
       IF outcome = "fail"
       THEN /\ Finish(k, f, Thrown("transport error"))
            /\ orphans' = orphans \cup Calls(k, rest)
            /\ UNCHANGED rpcLog
       ELSE IF outcome = "null"
       THEN /\ IF m = "getTransactionReceipt"
               THEN Finish(k, f, PendingReceipt(resource, f.operation))
               ELSE Finish(k, f, Thrown("not found"))
            /\ UNCHANGED <<rpcLog, orphans>>
       ELSE IF rest # {}
       THEN /\ frames' = [frames EXCEPT ![k] = [f EXCEPT !.pending = rest]]
            /\ UNCHANGED <<i, pc, returnData, thrown, rpcLog, orphans>>
       ELSE IF f.todo # <<>>
       THEN /\ frames' = [frames EXCEPT ![k] =
                   [f EXCEPT !.pending = {Head(f.todo)}, !.todo = Tail(f.todo)]]
            /\ rpcLog' = rpcLog \cup Calls(k, {Head(f.todo)})
            /\ UNCHANGED <<i, pc, returnData, thrown, orphans>>
       ELSE /\ IF ~P.known
               THEN Finish(k, f, Thrown(DefaultMessage(resource)))
               ELSE \E good \in BOOLEAN :
                      Finish(k, f, Result(resource, f.operation, f.params,
                             IF m = P.confirm \/ m = "getTransactionReceipt"
                             THEN ReceiptStatus(resource, good)
                             ELSE IF P.confirm # "" THEN "pending" ELSE ""))
            /\ UNCHANGED <<rpcLog, orphans>>
    /\ UNCHANGED <<resource, operation, continueOnFail, items>>
    /\ UNCHANGED nonDispatchVars

\* a transport call nobody awaits any more answers
OrphanSettles(o) ==
    /\ o \in orphans
    /\ orphans' = orphans \ {o}
    /\ UNCHANGED <<resource, operation, continueOnFail, items, i, pc, returnData,
                   thrown, frames, rpcLog>>
    /\ UNCHANGED nonDispatchVars

\* ---------------------------------------------- waitForTransaction (the race)
\* one second passes while the race is undecided
Tick(k) ==
    /\ frames[k].st = "running"
    /\ frames[k].phase = "race"
    /\ frames[k].elapsed < EffectiveTimeout(frames[k].params)
    /\ frames' = [frames EXCEPT ![k].elapsed = @ + 1]
    /\ UNCHANGED <<resource, operation, continueOnFail, items, i, pc, returnData,
                   thrown, rpcLog, orphans>>
    /\ UNCHANGED nonDispatchVars

\* setTimeout(() => reject(...), timeout) fires first: the catch block returns
TimerFires(k) ==
    /\ frames[k].st = "running"
    /\ frames[k].phase = "race"
    /\ frames[k].elapsed = EffectiveTimeout(frames[k].params)
    /\ Finish(k, frames[k], TimeoutResult(resource, frames[k].operation))
    /\ orphans' = orphans \cup Calls(k, frames[k].pending)
    /\ UNCHANGED <<resource, operation, continueOnFail, items, rpcLog>>
    /\ UNCHANGED nonDispatchVars

\* client.waitForTransaction resolves first; client.getBlockNumber() is awaited next
ConfirmationArrives(k, receipt) ==
    /\ frames[k].st = "running"
    /\ frames[k].phase = "race"
    /\ receipt \in {"success", "failed", "null"}
    /\ frames' = [frames EXCEPT ![k] =
            [@ EXCEPT !.phase = "blockNumber", !.receipt = receipt,
                      !.pending = {"getBlockNumber"}]]
    /\ rpcLog' = rpcLog \cup Calls(k, {"getBlockNumber"})
    /\ UNCHANGED <<resource, operation, continueOnFail, items, i, pc, returnData,
                   thrown, orphans>>
    /\ UNCHANGED nonDispatchVars

\* client.waitForTransaction rejects first: the catch block returns
ConfirmationRejects(k) ==
    /\ frames[k].st = "running"
    /\ frames[k].phase = "race"
    /\ Finish(k, [frames[k] EXCEPT !.receipt = "rejected"],
              TimeoutResult(resource, frames[k].operation))
    /\ UNCHANGED <<resource, operation, continueOnFail, items, rpcLog, orphans>>
    /\ UNCHANGED nonDispatchVars

\* client.getBlockNumber() answers inside the try block
BlockNumberReturns(k, ok) ==
    /\ frames[k].st = "running"
    /\ frames[k].phase = "blockNumber"
    /\ LET f == frames[k] IN
       IF ok /\ f.receipt # "null"
       THEN Finish(k, f, Result(resource, f.operation, f.params, f.receipt))
       ELSE Finish(k, f, TimeoutResult(resource, f.operation))
    /\ UNCHANGED <<resource, operation, continueOnFail, items, rpcLog, orphans>>
    /\ UNCHANGED nonDispatchVars

\* the executor of item i is called with the arguments its signature declares
DirectCall ==
    /\ pc = "loop"
    /\ i < N
    /\ frames' = [frames EXCEPT ![i] = BindDeclared(resource, i, operation)]
    /\ pc' = "await"
    /\ UNCHANGED <<resource, operation, continueOnFail, items, i, returnData, thrown,
                   rpcLog, orphans>>
    /\ UNCHANGED nonDispatchVars

\* ------------------------------------------------------------------ specifications
InitFor(rs) ==
    /\ resource \in rs
    /\ operation \in OpsOf(resource) \cup {UnknownOp}
    /\ continueOnFail \in BOOLEAN
    /\ \E n \in 1..MaxItems : items \in [0..(n - 1) -> ItemsFor(resource, operation)]
    /\ i = 0
    /\ pc = "loop"
    /\ returnData = <<>>
    /\ thrown = ""
    /\ frames = [k \in DOMAIN items |-> NoFrame]
    /\ rpcLog = {}
    /\ orphans = {}
    /\ join = NoJoin
    /\ trigger = NoTrigger
    /\ restCall = NoRest
    /\ calc = NoCalc
    /\ txn = NoTxn

\* Beam.execute on a batch
Init == InitFor(Resources \cup {UnknownResource})

Next ==
    \/ Dispatch
    \/ Return
    \/ \E k \in DOMAIN frames : StartSphere(k)
    \/ \E k \in DOMAIN frames : StartExecutor(k)
    \/ \E k \in DOMAIN frames : \E m \in frames[k].pending :
         \E outcome \in {"value", "null", "fail"} : TransportReturn(k, m, outcome)
    \/ \E o \in orphans : OrphanSettles(o)

Spec == Init /\ [][Next]_vars

\* the executors that take (client, operation, itemIndex), called that way
InitDirect == InitFor(SigClientOpIndex)

NextDirect ==
    \/ DirectCall
    \/ Return
    \/ \E k \in DOMAIN frames : StartExecutor(k)
    \/ \E k \in DOMAIN frames : \E m \in frames[k].pending :
         \E outcome \in {"value", "null", "fail"} : TransportReturn(k, m, outcome)
    \/ \E k \in DOMAIN frames : Tick(k)
    \/ \E k \in DOMAIN frames : TimerFires(k)
    \/ \E k \in DOMAIN frames : \E receipt \in {"success", "failed", "null"} :
         ConfirmationArrives(k, receipt)
    \/ \E k \in DOMAIN frames : ConfirmationRejects(k)
    \/ \E k \in DOMAIN frames : \E ok \in BOOLEAN : BlockNumberReturns(k, ok)
    \/ \E o \in orphans : OrphanSettles(o)

SpecDirect == InitDirect /\ [][NextDirect]_vars

\* ------------------------------------------------------------------ properties
Settled(k) == frames[k].st \in {"returned", "threw"}

\* item k's executor failed, or the dispatcher's default branch threw for it
Failed(k) ==
    \/ frames[k].st = "threw"
    \/ resource \notin Resources /\ k < Len(returnData)

\* the message item k failed with
FailureOf(k) == IF resource \notin Resources THEN "Unknown resource" ELSE frames[k].out.error

\* C1: with continue-on-fail enabled, a finished call has exactly one entry per input
\* item, in input order, entry k paired with item k; a failed item's entry is the
\* record {error, resource, operation} and any other entry is the executor's result.
C1_ContinueOnFailKeepsEveryItem ==
    (continueOnFail /\ pc = "done") =>
        /\ Len(returnData) = N
        /\ \A k \in DOMAIN items :
             /\ returnData[k + 1].pairedItem = k
             /\ Failed(k) =>
                  /\ returnData[k + 1].json.type = "error"
                  /\ returnData[k + 1].json.error = FailureOf(k)
                  /\ returnData[k + 1].json.resource = resource
                  /\ returnData[k + 1].json.operation = operation
             /\ ~Failed(k) =>
                  /\ frames[k].st = "returned"
                  /\ returnData[k + 1].json = frames[k].out

C1_Witness ==
    /\ continueOnFail
    /\ pc = "done"
    /\ N = 3
    /\ frames[0].st = "returned"
    /\ frames[1].st = "threw"
    /\ frames[2].st = "returned"
    /\ Len(returnData) = 3

\* C2: with continue-on-fail disabled, the call fails with the error of the first
\* failing item, no executor is invoked for a later item, and there is no entry for
\* the failing item or a later one.
C2_AbortOnFirstFailure ==
    ~continueOnFail =>
        /\ (\E k \in DOMAIN items : frames[k].st = "threw") => pc = "thrown"
        /\ pc = "thrown" =>
             /\ i \in DOMAIN items
             /\ thrown = FailureOf(i)
             /\ resource \in Resources => frames[i].st = "threw"
             /\ \A k \in DOMAIN items :
                  /\ k < i => frames[k].st = "returned"
                  /\ k > i => frames[k].st = "none"
             /\ Len(returnData) = i
             /\ \A n \in 1..Len(returnData) :
                  /\ returnData[n].pairedItem < i
                  /\ returnData[n].json.type # "error"

C2_Witness ==
    /\ ~continueOnFail
    /\ pc = "thrown"
    /\ N = 3
    /\ i = 1
    /\ frames[0].st = "returned"
    /\ frames[1].st = "threw"
    /\ frames[2].st = "none"

\* C3: items are processed in input order and one at a time: an executor is started
\* for an item only when the executor of every earlier item has returned or failed,
\* so at most one executor is in flight.
C3_OneExecutorAtATime ==
    /\ Cardinality({k \in DOMAIN items : frames[k].st = "running"}) <= 1
    /\ \A k \in DOMAIN items :
         frames[k].st # "none" => \A j \in DOMAIN items : j < k => Settled(j)

C3_Witness ==
    /\ N = 3
    /\ Settled(0)
    /\ frames[1].st = "running"
    /\ frames[1].pending # {}
    /\ frames[2].st = "none"

WalletAddressOps ==
    {"getBalance", "getWrappedBalance", "getTokenBalances", "transferBeam", "transferToken"}

InvalidAddressMessages ==
    {"Invalid address format", "Invalid recipient address format",
     "Invalid token address format"}

\* item k carries an address parameter that is not an address
HasInvalidAddress(k) ==
    \/ items[k].address = AddrGarbage
    \/ UsesTokenAddress(resource, operation) /\ items[k].tokenAddress = AddrGarbage

\* C4: for the wallet operations getBalance, getWrappedBalance, getTokenBalances,
\* transferBeam and transferToken, an item with an invalid address fails with an
\* invalid-address error and no transport call is ever issued for it.
C4_WalletValidatesBeforeTransport ==
    (resource = "wallet" /\ operation \in WalletAddressOps) =>
        \A k \in DOMAIN items :
            HasInvalidAddress(k) =>
                /\ \A c \in rpcLog \cup orphans : c.item # k
                /\ frames[k].phase # "new" =>
                     /\ frames[k].st = "threw"
                     /\ frames[k].out.error \in InvalidAddressMessages

C4_Witness ==
    /\ resource = "wallet"
    /\ operation = "transferToken"
    /\ N >= 2
    /\ ~HasInvalidAddress(0)
    /\ \E c \in rpcLog : c.item = 0
    /\ items[1].address # AddrGarbage
    /\ items[1].tokenAddress = AddrGarbage
    /\ frames[1].st = "threw"
    /\ frames[1].out.error = "Invalid token address format"

\* operations that take an address parameter to act on (validateAddress, whose
\* purpose is to report on a possibly invalid address, is left out)
TakesAddress(r, op) ==
    /\ Plan(r, op).echo \/ Plan(r, op).checks # <<>>
    /\ ~(r = "wallet" /\ op = "validateAddress")

ValidationMessages == InvalidAddressMessages \cup {"Invalid address"}

\* C5: in every executor, an operation that takes an address parameter fails an item
\* whose address is invalid with a validation error, before any network call.
C5_EveryExecutorValidatesBeforeTransport ==
    \A k \in DOMAIN items :
        (TakesAddress(resource, operation) /\ HasInvalidAddress(k)) =>
            /\ \A c \in rpcLog \cup orphans : c.item # k
            /\ frames[k].phase # "new" =>
                 /\ frames[k].st = "threw"
                 /\ frames[k].out.error \in ValidationMessages

\* C6: an address echoed in a result record is valid and in checksummed form,
\* whatever the letter case of the address supplied.
C6_EchoedAddressIsChecksummed ==
    \A n \in 1..Len(returnData) :
        (/\ returnData[n].json.type = "result"
         /\ returnData[n].json.address # ""
         /\ returnData[n].json.operation # "validateAddress") =>
            returnData[n].json.address = AddrChecksum

\* C7: every normal result record carries a timestamp field holding the ISO-8601
\* time at which the record was produced.
C7_EveryResultIsTimestamped ==
    \A k \in DOMAIN items :
        frames[k].st = "returned" => frames[k].out.timestamp = "iso"

\* the messages of the default branches; a failed credentials lookup, which
\* precedes the switch, is not held against the claim
UnknownOperationMessages ==
    {"Unknown resource", "Unknown operation", "Unsupported operation",
     "Operation not supported", "credentials"}

\* C8: an unrecognized resource, or a recognized resource with an operation it does
\* not define, fails the item with an unsupported/unknown-operation error and never
\* yields a normal result entry.
C8_UnknownOperationFails ==
    (resource \notin Resources \/ operation \notin OpsOf(resource)) =>
        /\ \A n \in 1..Len(returnData) :
             /\ returnData[n].json.type = "error"
             /\ returnData[n].json.error \in UnknownOperationMessages
        /\ pc = "thrown" => thrown \in UnknownOperationMessages

\* C9: the executor invoked for item i receives i as its item index and the selected
\* operation as its operation, and reads that item's parameters at index i.
C9_ExecutorReceivesItemIndex ==
    \A k \in DOMAIN items :
        frames[k].st # "none" =>
            /\ frames[k].itemIndex = k
            /\ frames[k].operation = operation
            /\ frames[k].phase # "new" => frames[k].params = items[k]

\* C10: waitForTransaction returns a record and does not raise; its status is
\* 'timeout' when no confirmation arrived within the timeout, and the receipt's
\* status when the confirmation arrived first.
C10_WaitReportsTheReceipt ==
    (resource = "transaction" /\ operation = "waitForTransaction") =>
        \A k \in DOMAIN items :
            Settled(k) =>
                /\ frames[k].st = "returned"
                /\ frames[k].receipt = "none" => frames[k].out.status = "timeout"
                /\ frames[k].receipt \in {"success", "failed"} =>
                     frames[k].out.status = frames[k].receipt

TransferOps == {"transferBeam", "transferToken", "wrapBeam", "unwrapBeam"}

\* the transport accepted the transaction item k submitted: the executor went
\* on to wait for it, or returned at once with the pending record
Accepted(k) ==
    \/ [item |-> k, method |-> "tx.wait"] \in rpcLog
    \/ frames[k].st = "returned" /\ frames[k].out.status = "pending"

\* C26: for the state-changing wallet operations, once the transport has
\* accepted the submitted transaction the entry produced for the item carries
\* the transaction's hash, also when the wait fails or the transaction reverts.
C26_AcceptedEntryCarriesHash ==
    (resource = "wallet" /\ operation \in TransferOps) =>
        \A n \in 1..Len(returnData) :
            Accepted(returnData[n].pairedItem) => returnData[n].json.txHash # ""

\* C27: waitForTransaction reports 'timeout' only when the timer ended the
\* race: not when the wait itself failed, when no receipt came back or when
\* the block-number read that follows failed.
C27_TimeoutOnlyWhenElapsed ==
    (resource = "transaction" /\ operation = "waitForTransaction") =>
        \A k \in DOMAIN items :
            (Settled(k) /\ frames[k].out.status = "timeout") => frames[k].receipt = "none"

\* ------------------------------------------------------------------ joint reads
\* `const [a, b, ...] = await Promise.all([read1(), read2(), ...])`: the reads
\* are all started while the array is built, the joint promise fulfils with
\* the answers in array order once every read has answered, and rejects as
\* soon as one read rejects.
MaxValue == 2

\* the dispatcher is not running
DispatchIdle ==
    /\ resource = "none"
    /\ operation = "none"
    /\ continueOnFail = FALSE
    /\ items = <<>>
    /\ i = 0
    /\ pc = "idle"
    /\ returnData = <<>>
    /\ thrown = ""
    /\ frames = <<>>
    /\ rpcLog = {}
    /\ orphans = {}

\* the places that await independent reads jointly
JoinSites == {"getTokenBalances", "getTokenInfo", "getNetworkStatus"}

\* the reads of each, in array order
Reads(site) ==
    CASE site = "getTokenBalances" -> << "getBalance", "getWrappedBeamBalance" >>
      [] site = "getTokenInfo" -> << "name", "symbol", "decimals", "totalSupply" >>
      [] site = "getNetworkStatus" -> << "getChainId", "getBlockNumber", "getGasPrice" >>

\* the field of the returned record that each array position is bound to
Fields(site) ==
    CASE site = "getTokenBalances" -> << "BEAM", "WBEAM" >>
      [] site = "getTokenInfo" -> << "name", "symbol", "decimals", "totalSupply" >>
      [] site = "getNetworkStatus" -> << "chainId", "blockNumber", "gasPrice" >>

NoRecord == [f \in {} |-> 0]

\* the call before its first statement
NewJoin(site) ==
    [site |-> site, phase |-> "new",
     status |-> [n \in 1..Len(Reads(site)) |-> "idle"],
     answers |-> [n \in 1..Len(Reads(site)) |-> 0],
     values |-> [n \in 1..Len(Reads(site)) |-> 0],
     order |-> <<>>, promise |-> "pending", caller |-> "running", record |-> NoRecord]

SlotByArrival(n, order) == Len(order) + 1

\* Promise.all stores the answer of the n-th promise of the array at index n
Slot(n, order) == n

\* the record built from the destructured array
Record(site, values) ==
    [f \in {Fields(site)[n] : n \in 1..Len(Fields(site))} |->
        values[CHOOSE n \in 1..Len(Fields(site)) : Fields(site)[n] = f]]

\* the array literal is evaluated: every read is started, then the caller awaits
IssueReads ==
    /\ join.site \in JoinSites
    /\ join.phase = "new"
    /\ join' = [join EXCEPT !.phase = "awaiting",
                            !.status = [n \in DOMAIN join.status |-> "inflight"]]
    /\ UNCHANGED <<dispatchVars, trigger, restCall, calc, txn>>

\* read n answers (with v) or rejects; the joint promise and the awaiting
\* caller follow
ReadSettles(n, ok, v) ==
    /\ join.site \in JoinSites
    /\ join.phase = "awaiting"
    /\ n \in DOMAIN join.status
    /\ join.status[n] = "inflight"
    /\ IF ~ok
       THEN join' = [join EXCEPT !.status[n] = "rejected",
                                 !.order = Append(@, n),
                                 !.promise = IF @ = "pending" THEN "rejected" ELSE @,
                                 !.caller = IF join.promise = "pending" THEN "threw" ELSE @]
       ELSE LET vals == IF join.promise = "pending"
                        THEN [join.values EXCEPT ![Slot(n, join.order)] = v]
                        ELSE join.values
                all == \A m \in DOMAIN join.status : m # n => join.status[m] = "fulfilled"
            IN join' = [join EXCEPT !.status[n] = "fulfilled",
                                    !.answers[n] = v,
                                    !.order = Append(@, n),
                                    !.values = vals,
                                    !.promise = IF all THEN "fulfilled" ELSE @,
                                    !.caller = IF all THEN "returned" ELSE @,
                                    !.record = IF all THEN Record(join.site, vals) ELSE @]
    /\ UNCHANGED <<dispatchVars, trigger, restCall, calc, txn>>

InitJoin ==
    /\ DispatchIdle
    /\ join \in {NewJoin(site) : site \in JoinSites}
    /\ trigger = NoTrigger
    /\ restCall = NoRest
    /\ calc = NoCalc
    /\ txn = NoTxn

NextJoin ==
    \/ IssueReads
    \/ \E n \in DOMAIN join.status : \E ok \in BOOLEAN : \E v \in 1..MaxValue :
         ReadSettles(n, ok, v)

SpecJoin == InitJoin /\ [][NextJoin]_vars

\* C11: a multi-call read (getTokenBalances, getTokenInfo, getNetworkStatus) starts
\* all its reads together; it returns only when every read has answered; when a read
\* fails the call fails and returns no record, partial or other; and each field of
\* the returned record is the answer of its own read, in whatever order they answered.
C11_JointReadsAllOrNothing ==
    join.phase # "new" =>
        /\ \A n \in DOMAIN join.status : join.status[n] # "idle"
        /\ join.caller = "returned" =>
             /\ \A n \in DOMAIN join.status : join.status[n] = "fulfilled"
             /\ \A n \in DOMAIN join.status :
                  join.record[Fields(join.site)[n]] = join.answers[n]
        /\ (\E n \in DOMAIN join.status : join.status[n] = "rejected") =>
             /\ join.caller = "threw"
             /\ DOMAIN join.record = {}
        /\ join.caller # "returned" => DOMAIN join.record = {}

C11_Witness ==
    /\ join.site = "getTokenInfo"
    /\ join.caller = "returned"
    /\ join.order = << 4, 2, 1, 3 >>
    /\ join.answers = << 1, 2, 2, 1 >>

\* ------------------------------------------------------------------ trigger
\* BeamTrigger.poll.  The host calls poll again and again, one call at a time;
\* the chain grows meanwhile.  Blocks are numbered from 1 and every block
\* carries one event the trigger is interested in, identified by its block.
MaxBlock == 13

\* Math.min(currentBlock, fromBlock + 10)
ScanWindow == 10

\* newBlock stands for the types that fetch block by block (beamReceived,
\* beamSent, newBlock), tokenTransfer for those that ask for the logs of the
\* range in one call (tokenTransfer, nftTransfer, contractEvent)
TriggerTypes == {"newBlock", "tokenTransfer"}

Min(a, b) == IF a <= b THEN a ELSE b

NewTrigger(type) ==
    [triggerType |-> type, lastBlock |-> 0, first |-> 0, head |-> 0, phase |-> "idle",
     last |-> 0, currentBlock |-> 0, fromBlock |-> 0, toBlock |-> 0, blockNum |-> 0,
     events |-> {}, polls |-> 0, failed |-> 0,
     scanned |-> [b \in 1..MaxBlock |-> 0], emitted |-> [b \in 1..MaxBlock |-> 0]]

FromBlockRescansLast(lastBlock) == lastBlock

\* const fromBlock = lastBlock + 1
FromBlock(lastBlock) == lastBlock + 1

\* const toBlock = Math.min(currentBlock, fromBlock + 10)
ToBlock(currentBlock, fromBlock) == Min(currentBlock, fromBlock + ScanWindow)

\* the poll returns normally: null, or the events it collected
PollReturns(t, events) ==
    [t EXCEPT !.phase = "idle", !.polls = Min(@ + 1, 2), !.events = {},
              !.scanned = [b \in 1..MaxBlock |->
                              IF b \in t.fromBlock..t.toBlock THEN @[b] + 1 ELSE @[b]],
              !.emitted = [b \in 1..MaxBlock |-> IF b \in events THEN @[b] + 1 ELSE @[b]],
              !.last = 0, !.currentBlock = 0, !.fromBlock = 0, !.toBlock = 0,
              !.blockNum = 0]

PollThrowsAfterWrite(t) ==
    [t EXCEPT !.phase = "idle", !.failed = 1, !.events = {}, !.lastBlock = t.currentBlock,
              !.last = 0, !.currentBlock = 0, !.fromBlock = 0, !.toBlock = 0,
              !.blockNum = 0]

\* catch (err) { throw new NodeOperationError(...) }
PollThrows(t) ==
    [t EXCEPT !.phase = "idle", !.failed = 1, !.events = {},
              !.last = 0, !.currentBlock = 0, !.fromBlock = 0, !.toBlock = 0,
              !.blockNum = 0]

\* a block is mined (or several)
ChainAdvances(h) ==
    /\ trigger.triggerType \in TriggerTypes
    /\ h > trigger.head
    /\ h <= MaxBlock
    /\ trigger' = [trigger EXCEPT !.head = h]
    /\ UNCHANGED <<dispatchVars, join, restCall, calc, txn>>

\* poll(): the static data is read and provider.getBlockNumber() is awaited
PollStarts ==
    /\ trigger.triggerType \in TriggerTypes
    /\ trigger.phase = "idle"
    /\ trigger' = [trigger EXCEPT !.phase = "getBlockNumber", !.last = trigger.lastBlock]
    /\ UNCHANGED <<dispatchVars, join, restCall, calc, txn>>

\* provider.getBlockNumber() answers; the range is computed and the scan begins
BlockNumberAnswers(ok) ==
    /\ trigger.triggerType \in TriggerTypes
    /\ trigger.phase = "getBlockNumber"
    /\ LET t == trigger
           cur == t.head
           from == FromBlock(t.last)
           to == ToBlock(cur, from)
       IN
       IF ~ok
       THEN trigger' = PollThrows(t)
       ELSE IF t.last = 0
       THEN trigger' = [PollReturns(t, {}) EXCEPT !.lastBlock = cur, !.first = cur]
       ELSE IF cur <= t.last
       THEN trigger' = PollReturns(t, {})
       ELSE trigger' = [t EXCEPT !.currentBlock = cur, !.fromBlock = from, !.toBlock = to,
                                 !.blockNum = from,
                                 !.phase = IF t.triggerType = "newBlock"
                                           THEN "getBlock" ELSE "getLogs"]
    /\ UNCHANGED <<dispatchVars, join, restCall, calc, txn>>

\* workflowStaticData.lastBlock = currentBlock; return null or the events
Complete(t, events) == [PollReturns(t, events) EXCEPT !.lastBlock = t.currentBlock]

\* provider.getBlock(blockNum) answers inside the loop over the range
GetBlockAnswers(outcome) ==
    /\ trigger.triggerType \in TriggerTypes
    /\ trigger.phase = "getBlock"
    /\ outcome \in {"value", "null", "fail"}
    /\ LET t == trigger
           events == IF outcome = "value" THEN t.events \cup {t.blockNum} ELSE t.events
       IN
       IF outcome = "fail"
       THEN trigger' = PollThrows(t)
       ELSE IF t.blockNum < t.toBlock
       THEN trigger' = [t EXCEPT !.events = events, !.blockNum = @ + 1]
       ELSE trigger' = Complete(t, events)
    /\ UNCHANGED <<dispatchVars, join, restCall, calc, txn>>

\* provider.getLogs({fromBlock, toBlock, ...}) answers
GetLogsAnswers(ok) ==
    /\ trigger.triggerType \in TriggerTypes
    /\ trigger.phase = "getLogs"
    /\ trigger' = IF ok THEN Complete(trigger, trigger.fromBlock..trigger.toBlock)
                  ELSE PollThrows(trigger)
    /\ UNCHANGED <<dispatchVars, join, restCall, calc, txn>>

InitTrigger ==
    /\ DispatchIdle
    /\ join = NoJoin
    /\ trigger \in {NewTrigger(type) : type \in TriggerTypes}
    /\ restCall = NoRest
    /\ calc = NoCalc
    /\ txn = NoTxn

NextTrigger ==
    \/ \E h \in 1..MaxBlock : ChainAdvances(h)
    \/ PollStarts
    \/ \E ok \in BOOLEAN : BlockNumberAnswers(ok)
    \/ \E outcome \in {"value", "null", "fail"} : GetBlockAnswers(outcome)
    \/ \E ok \in BOOLEAN : GetLogsAnswers(ok)

SpecTrigger == InitTrigger /\ [][NextTrigger]_vars

\* C12: over any sequence of polls, no block is scanned by two polls that both
\* complete, and no event is emitted more than once.
C12_NoBlockScannedTwice ==
    trigger.triggerType \in TriggerTypes =>
        \A b \in 1..MaxBlock :
            /\ trigger.scanned[b] <= 1
            /\ trigger.emitted[b] <= 1

C12_Witness ==
    /\ trigger.phase = "idle"
    /\ trigger.failed = 1
    /\ trigger.lastBlock = 5
    /\ trigger.scanned[2] = 1
    /\ trigger.scanned[3] = 1
    /\ trigger.scanned[4] = 1
    /\ trigger.scanned[5] = 1
    /\ trigger.emitted[3] = 1
    /\ trigger.emitted[5] = 1

\* C24: every block above the watermark recorded by the first poll and at most
\* the height a completed poll observed has been scanned by a completed poll.
C24_NoBlockMissed ==
    trigger.triggerType \in TriggerTypes =>
        \A b \in 1..MaxBlock :
            (trigger.first < b /\ b <= trigger.lastBlock) => trigger.scanned[b] >= 1

\* C25: the stored last-seen block never decreases, and a poll that fails
\* leaves it as it was, so that the next poll starts from the same block.
C25_WatermarkMonotonic ==
    [][ /\ trigger'.lastBlock >= trigger.lastBlock
        /\ (trigger.phase # "idle" /\ trigger' = PollThrows(trigger)) =>
               trigger'.lastBlock = trigger.lastBlock
        /\ trigger'.phase \in {"getBlock", "getLogs"} =>
               trigger'.fromBlock = trigger'.lastBlock + 1 ]_vars

C25_Witness ==
    /\ trigger.failed = 1
    /\ trigger.phase = "getLogs"
    /\ trigger.lastBlock = 4
    /\ trigger.first = 2
    /\ trigger.fromBlock = 5
    /\ trigger.scanned[3] = 1
    /\ trigger.scanned[5] = 0

\* ------------------------------------------------------------------ REST clients
\* SphereApiClient and GamingClient: one method call, the HTTP exchange it
\* makes through axios, and what the caller of the method gets.
SphereMethods == {"getListing", "getCollection", "getCollectionStats", "getFloorPrice",
                  "searchCollections"}

\* GamingClient methods whose catch block calls handleError
GamingHandled == {"getGameStats", "getPlayerInventory", "getLeaderboard", "claimRewards"}
\* GamingClient methods whose catch block is `catch { return null; }`
GamingNullOnError == {"getGameInfo", "getPlayerProfile", "getPlayerStats", "getMatch",
                      "getPlayerRanking", "getAssetInfo"}
\* GamingClient methods whose catch block answers from the local registry
GamingFallback == {"getAvailableGames"}

MethodsOf(client) ==
    IF client = "SphereApiClient" THEN SphereMethods
    ELSE GamingHandled \cup GamingNullOnError \cup GamingFallback

\* the tag handleError puts in front of the message
ApiTag(client) == IF client = "SphereApiClient" THEN "Sphere API error" ELSE "Gaming API error"

HttpStatuses == {400, 404, 500}

\* what axios settles with: a 2xx answer, an answer with an error status and a
\* body carrying `message`, `error` or neither, or no answer at all
Responses ==
    {[kind |-> "ok", status |-> 200, body |-> "data"]}
      \cup [kind : {"http"}, status : HttpStatuses, body : {"message", "error", "none"}]
      \cup {[kind |-> "network", status |-> 0, body |-> "none"]}

NoResponse == [kind |-> "none", status |-> 0, body |-> "none"]
NoOutcome == [kind |-> "none", type |-> "", tag |-> "", status |-> 0, detail |-> "", value |-> ""]

NewRest(client, method) ==
    [client |-> client, method |-> method, phase |-> "new", response |-> NoResponse,
     outcome |-> NoOutcome]

\* handleError(error): never
handleError(client, response) ==
    IF response.kind = "http"
    THEN [NoOutcome EXCEPT !.kind = "error", !.type = "Error", !.tag = ApiTag(client),
                           !.status = response.status,
                           !.detail = IF response.body = "message" THEN "data.message"
                                      ELSE IF response.body = "error" THEN "data.error"
                                      ELSE "Unknown error"]
    ELSE [NoOutcome EXCEPT !.kind = "error", !.type = "AxiosError", !.detail = "error.message"]

\* the catch block of a method
Caught(client, method, response) ==
    IF client = "GamingClient" /\ method \in GamingNullOnError
    THEN [NoOutcome EXCEPT !.kind = "value", !.value = "null"]
    ELSE IF client = "GamingClient" /\ method \in GamingFallback
    THEN [NoOutcome EXCEPT !.kind = "value", !.value = "GAMES_REGISTRY"]
    ELSE handleError(client, response)

\* the method is called: this.client.get/post(...) is awaited
RestRequest ==
    /\ restCall.client \in {"SphereApiClient", "GamingClient"}
    /\ restCall.phase = "new"
    /\ restCall' = [restCall EXCEPT !.phase = "inflight"]
    /\ UNCHANGED <<dispatchVars, join, trigger, calc, txn>>

\* axios settles; the method returns response.data or runs its catch block
RestResponds(response) ==
    /\ restCall.client \in {"SphereApiClient", "GamingClient"}
    /\ restCall.phase = "inflight"
    /\ response \in Responses
    /\ restCall' = [restCall EXCEPT
            !.phase = "settled",
            !.response = response,
            !.outcome = IF response.kind = "ok"
                        THEN [NoOutcome EXCEPT !.kind = "value", !.value = "response.data"]
                        ELSE Caught(restCall.client, restCall.method, response)]
    /\ UNCHANGED <<dispatchVars, join, trigger, calc, txn>>

InitRest ==
    /\ DispatchIdle
    /\ join = NoJoin
    /\ trigger = NoTrigger
    /\ \E client \in {"SphereApiClient", "GamingClient"} :
         \E method \in MethodsOf(client) : restCall = NewRest(client, method)
    /\ calc = NoCalc
    /\ txn = NoTxn

NextRest ==
    \/ RestRequest
    \/ \E response \in Responses : RestResponds(response)

SpecRest == InitRest /\ [][NextRest]_vars

\* C13: every failure of a REST transport call reaches the caller as an error of the
\* one normalized type whose message starts with the tag of the API it came from;
\* none arrives as the raw transport error and none is turned into a normal value.
C13_RestFailuresAreNormalized ==
    (restCall.client # "none" /\ restCall.phase = "settled"
        /\ restCall.response.kind # "ok") =>
        /\ restCall.outcome.kind = "error"
        /\ restCall.outcome.type = "Error"
        /\ restCall.outcome.tag = ApiTag(restCall.client)

\* ------------------------------------------------------------------ helper calls
\* One call of a pure helper: calc.fn is the helper, calc.args its arguments,
\* calc.result what it returned once calc.returned is TRUE; calc.from is the
\* argument of the call whose result this call was given (<<>> if none).
\* A string is the sequence of its characters, and a bigint is written as its
\* decimal digits without leading zeros (BigInt.prototype.toString).
MaxDigits == 3

Digits == << "0", "1", "2", "3", "4", "5", "6", "7", "8", "9" >>
DigitValue(c) == (CHOOSE n \in 1..10 : Digits[n] = c) - 1
DigitChar(n) == Digits[n + 1]

Zeros(n) == [k \in 1..n |-> "0"]

\* BigInt(str): leading zeros do not count
RECURSIVE Canonical(_)
Canonical(s) ==
    IF s = <<>> THEN << "0" >>
    ELSE IF Len(s) > 1 /\ Head(s) = "0" THEN Canonical(Tail(s)) ELSE s

\* the amounts the helpers are called with: a few leading digits followed by a
\* run of zeros, so that amounts below, at and above one whole token occur
LeadDigits == {"0", "1", "5", "9"}
ZeroRuns == {0, 5, 6, 9, 17, 18}
Amounts ==
    {Canonical(s \o Zeros(z)) :
        s \in UNION {[1..m -> LeadDigits] : m \in 1..MaxDigits}, z \in ZeroRuns}

TokenDecimals == {0, 6, 18}
EtherDecimals == 18
GweiDecimals == 9

\* the error ethers raises for a string with more decimals than the unit has
NumericFault == << "NUMERIC_FAULT" >>

\* ethers.formatUnits: while (str.length <= decimals) str = "0000" + str
RECURSIVE PadWhole(_, _)
PadWhole(str, decimals) ==
    IF Len(str) <= decimals THEN PadWhole(Zeros(4) \o str, decimals) ELSE str

\* ... trim the whole component, leaving at least one 0
RECURSIVE TrimWhole(_)
TrimWhole(str) ==
    IF Len(str) >= 2 /\ str[1] = "0" /\ str[2] # "." THEN TrimWhole(Tail(str)) ELSE str

\* ... trim the decimal component, leaving at least one 0
RECURSIVE TrimDecimal(_)
TrimDecimal(str) ==
    IF Len(str) >= 2 /\ str[Len(str)] = "0" /\ str[Len(str) - 1] # "."
    THEN TrimDecimal(SubSeq(str, 1, Len(str) - 1)) ELSE str

formatUnitsNoPoint(value, decimals) == value

\* ethers.formatUnits(value, decimals)
formatUnits(value, decimals) ==
    IF decimals = 0 THEN value
    ELSE LET str == PadWhole(value, decimals)
             index == Len(str) - decimals
         IN TrimDecimal(TrimWhole(SubSeq(str, 1, index) \o << "." >>
                                  \o SubSeq(str, index + 1, Len(str))))

\* the position of the decimal point (one past the end when there is none)
PointAt(s) ==
    IF \E n \in 1..Len(s) : s[n] = "." THEN CHOOSE n \in 1..Len(s) : s[n] = "."
    ELSE Len(s) + 1

\* ethers.parseUnits: while (decimal.length < decimals) decimal += "0000"
RECURSIVE PadDecimal(_, _)
PadDecimal(decimal, decimals) ==
    IF Len(decimal) < decimals THEN PadDecimal(decimal \o Zeros(4), decimals) ELSE decimal

\* ethers.parseUnits(value, decimals)
parseUnits(value, decimals) ==
    LET p == PointAt(value)
        whole == IF p = 1 THEN << "0" >> ELSE SubSeq(value, 1, p - 1)
        padded == PadDecimal(SubSeq(value, p + 1, Len(value)), decimals)
        extra == SubSeq(padded, decimals + 1, Len(padded))
    IN IF \E n \in 1..Len(extra) : extra[n] # "0" THEN NumericFault
       ELSE Canonical(whole \o SubSeq(padded, 1, decimals))

weiToBeam(wei) == formatUnits(wei, EtherDecimals)
beamToWei(beam) == parseUnits(beam, EtherDecimals)
weiToToken(wei, decimals) == formatUnits(wei, decimals)
tokenToWei(amount, decimals) == parseUnits(amount, decimals)
weiToGwei(wei) == formatUnits(wei, GweiDecimals)
gweiToWei(gwei) == parseUnits(gwei, GweiDecimals)

\* a call not yet made
NewCall(fn, args) == [fn |-> fn, args |-> args, returned |-> FALSE, result |-> <<>>,
                      from |-> <<>>]

\* the call returns
Returned(result) == [calc EXCEPT !.returned = TRUE, !.result = result]

Call_weiToBeam ==
    /\ calc.fn = "weiToBeam"
    /\ ~calc.returned
    /\ calc' = Returned(weiToBeam(calc.args.wei))
    /\ UNCHANGED <<dispatchVars, join, trigger, restCall, txn>>

Call_beamToWei ==
    /\ calc.fn = "beamToWei"
    /\ ~calc.returned
    /\ calc' = Returned(beamToWei(calc.args.beam))
    /\ UNCHANGED <<dispatchVars, join, trigger, restCall, txn>>

Call_weiToToken ==
    /\ calc.fn = "weiToToken"
    /\ ~calc.returned
    /\ calc' = Returned(weiToToken(calc.args.wei, calc.args.decimals))
    /\ UNCHANGED <<dispatchVars, join, trigger, restCall, txn>>

Call_tokenToWei ==
    /\ calc.fn = "tokenToWei"
    /\ ~calc.returned
    /\ calc' = Returned(tokenToWei(calc.args.amount, calc.args.decimals))
    /\ UNCHANGED <<dispatchVars, join, trigger, restCall, txn>>

Call_weiToGwei ==
    /\ calc.fn = "weiToGwei"
    /\ ~calc.returned
    /\ calc' = Returned(weiToGwei(calc.args.wei))
    /\ UNCHANGED <<dispatchVars, join, trigger, restCall, txn>>

Call_gweiToWei ==
    /\ calc.fn = "gweiToWei"
    /\ ~calc.returned
    /\ calc' = Returned(gweiToWei(calc.args.gwei))
    /\ UNCHANGED <<dispatchVars, join, trigger, restCall, txn>>

\* the string a wei-to-unit helper returned is handed to the opposite helper
ConvertBack ==
    /\ calc.fn \in {"weiToBeam", "weiToToken", "weiToGwei"}
    /\ calc.returned
    /\ calc' =
         [NewCall(CASE calc.fn = "weiToBeam" -> "beamToWei"
                    [] calc.fn = "weiToToken" -> "tokenToWei"
                    [] calc.fn = "weiToGwei" -> "gweiToWei",
                  CASE calc.fn = "weiToBeam" -> [beam |-> calc.result]
                    [] calc.fn = "weiToToken" ->
                         [amount |-> calc.result, decimals |-> calc.args.decimals]
                    [] calc.fn = "weiToGwei" -> [gwei |-> calc.result])
          EXCEPT !.from = calc.args.wei]
    /\ UNCHANGED <<dispatchVars, join, trigger, restCall, txn>>

UnitCalls ==
    {NewCall("weiToBeam", [wei |-> a]) : a \in Amounts}
      \cup {NewCall("weiToGwei", [wei |-> a]) : a \in Amounts}
      \cup {NewCall("weiToToken", [wei |-> a, decimals |-> d]) :
               a \in Amounts, d \in TokenDecimals}

\* C14: converting an amount of base units to a decimal string and back gives the
\* amount again: tokenToWei(weiToToken(a, d), d) = a for d in {0, 6, 18},
\* beamToWei(weiToBeam(a)) = a and gweiToWei(weiToGwei(a)) = a.
C14_UnitRoundTrip ==
    (/\ calc.fn \in {"tokenToWei", "beamToWei", "gweiToWei"}
     /\ calc.returned
     /\ calc.from # <<>>) => calc.result = calc.from

C14_Witness ==
    /\ calc.fn = "tokenToWei"
    /\ calc.returned
    /\ calc.args.decimals = 6
    /\ calc.args.amount = << "1", ".", "5" >>
    /\ calc.from = << "1", "5", "0", "0", "0", "0", "0" >>
    /\ calc.result = calc.from

\* ------------------------------------------------------------------ formatBalance
\* parseFloat and Number.prototype.toFixed are computed on the decimal digits;
\* the balances formatted have no digit 5, so no amount lies exactly halfway
\* between two neighbours at any number of places.
BalanceDigits == {"0", "1", "4", "9"}
BalanceAmounts ==
    {Canonical(s \o Zeros(z)) :
        s \in UNION {[1..m -> BalanceDigits] : m \in 1..MaxDigits}, z \in ZeroRuns}
BalanceDecimals == {6, 18}
DisplayDecimals == {0, 2, 4}

\* the digits before and after the decimal point of a decimal string
WholePart(s) == SubSeq(s, 1, PointAt(s) - 1)
FractionPart(s) == SubSeq(s, PointAt(s) + 1, Len(s))

AllZero(s) == \A n \in 1..Len(s) : s[n] = "0"

\* num === 0
IsZero(formatted) == AllZero(WholePart(formatted)) /\ AllZero(FractionPart(formatted))

\* num < 0.0001
BelowTenThousandth(formatted) ==
    /\ AllZero(WholePart(formatted))
    /\ AllZero(SubSeq(FractionPart(formatted) \o Zeros(4), 1, 4))

Sentinel == << "<", " ", "0", ".", "0", "0", "0", "1" >>

\* the digit string of n + 1, given that of n
RECURSIVE Increment(_)
Increment(s) ==
    IF s = <<>> THEN << "1" >>
    ELSE IF s[Len(s)] = "9" THEN Increment(SubSeq(s, 1, Len(s) - 1)) \o << "0" >>
    ELSE SubSeq(s, 1, Len(s) - 1) \o << DigitChar(DigitValue(s[Len(s)]) + 1) >>

\* num.toFixed(places)
toFixed(formatted, places) ==
    LET fraction == FractionPart(formatted) \o Zeros(places + 1)
        kept == WholePart(formatted) \o SubSeq(fraction, 1, places)
        rounded == IF DigitValue(fraction[places + 1]) >= 5 THEN Increment(kept) ELSE kept
    IN IF places = 0 THEN rounded
       ELSE SubSeq(rounded, 1, Len(rounded) - places) \o << "." >>
            \o SubSeq(rounded, Len(rounded) - places + 1, Len(rounded))

\* str.replace(/\.?0+$/, ''): the zeros the string ends with are removed, and
\* the point in front of them if there is one
StripZeros(str) ==
    IF str = <<>> \/ str[Len(str)] # "0" THEN str
    ELSE LET j == CHOOSE n \in 1..Len(str) :
                    /\ AllZero(SubSeq(str, n, Len(str)))
                    /\ n > 1 => str[n - 1] # "0"
             start == IF j > 1 /\ str[j - 1] = "." THEN j - 1 ELSE j
         IN SubSeq(str, 1, start - 1)

formatBalance(balance, decimals, displayDecimals) ==
    LET formatted == weiToToken(balance, decimals) IN
    IF IsZero(formatted) THEN << "0" >>
    ELSE IF BelowTenThousandth(formatted) THEN Sentinel
    ELSE StripZeros(toFixed(formatted, displayDecimals))

Call_formatBalance ==
    /\ calc.fn = "formatBalance"
    /\ ~calc.returned
    /\ calc' = Returned(formatBalance(calc.args.balance, calc.args.decimals,
                                      calc.args.displayDecimals))
    /\ UNCHANGED <<dispatchVars, join, trigger, restCall, txn>>

BalanceCalls ==
    {NewCall("formatBalance", [balance |-> a, decimals |-> d, displayDecimals |-> p]) :
        a \in BalanceAmounts, d \in BalanceDecimals, p \in DisplayDecimals}

\* the amount is below the smallest unit that `places` places can show
BelowDisplayUnit(formatted, places) ==
    /\ AllZero(WholePart(formatted))
    /\ AllZero(SubSeq(FractionPart(formatted) \o Zeros(places), 1, places))

\* a decimal string without the zeros its fraction ends with (and without the
\* point when no fraction is left)
TrimFraction(str) ==
    IF PointAt(str) > Len(str) THEN str
    ELSE LET fraction == FractionPart(str)
             last == IF AllZero(fraction) THEN 0
                     ELSE CHOOSE n \in 1..Len(fraction) :
                            /\ fraction[n] # "0"
                            /\ AllZero(SubSeq(fraction, n + 1, Len(fraction)))
         IN IF last = 0 THEN WholePart(str)
            ELSE WholePart(str) \o << "." >> \o SubSeq(fraction, 1, last)

\* C15: formatBalance(amount, decimals, displayDecimals) returns "0" exactly when the
\* amount is zero, the "< ..." sentinel for every nonzero amount below the smallest
\* unit displayDecimals places can show, and otherwise the amount rounded to
\* displayDecimals places with only the trailing zeros of the fraction removed.
C15_FormatBalance ==
    (calc.fn = "formatBalance" /\ calc.returned) =>
        LET formatted == weiToToken(calc.args.balance, calc.args.decimals)
            places == calc.args.displayDecimals
        IN /\ (calc.result = << "0" >>) <=> IsZero(formatted)
           /\ (~IsZero(formatted) /\ BelowDisplayUnit(formatted, places)) =>
                 (calc.result # <<>> /\ Head(calc.result) = "<")
           /\ (~IsZero(formatted) /\ ~BelowDisplayUnit(formatted, places)) =>
                 calc.result = TrimFraction(toFixed(formatted, places))

\* ------------------------------------------------------------------ player levels
MaxXP == 19100

\* level -> XP required
PLAYER_LEVELS ==
    << 0, 100, 300, 600, 1000, 1500, 2100, 2800, 3600, 4500,
       5500, 6600, 7800, 9100, 10500, 12000, 13600, 15300, 17100, 19000 >>

\* the loop over Object.entries(PLAYER_LEVELS), about to look at entry lvl
RECURSIVE ScanLevels(_, _, _)
ScanLevels(xp, lvl, level) ==
    IF lvl > Len(PLAYER_LEVELS) THEN level
    ELSE IF xp >= PLAYER_LEVELS[lvl] THEN ScanLevels(xp, lvl + 1, lvl)
    ELSE level

getLevelForXPStrict(xp) == ScanLevels(xp - 1, 1, 1)

getLevelForXP(xp) == ScanLevels(xp, 1, 1)

Call_getLevelForXP ==
    /\ calc.fn = "getLevelForXP"
    /\ ~calc.returned
    /\ calc' = Returned(getLevelForXP(calc.args.xp))
    /\ UNCHANGED <<dispatchVars, join, trigger, restCall, txn>>

LevelCalls == {NewCall("getLevelForXP", [xp |-> xp]) : xp \in 0..MaxXP}

\* C16: getLevelForXP(xp) is the highest level of the table whose threshold does not
\* exceed xp; it does not decrease when xp grows, is 1 for xp = 0 and always lies
\* between 1 and 20.
C16_LevelForXP ==
    (calc.fn = "getLevelForXP" /\ calc.returned) =>
        LET xp == calc.args.xp
            level == calc.result
        IN /\ level \in 1..20
           /\ PLAYER_LEVELS[level] <= xp
           /\ \A l \in 1..Len(PLAYER_LEVELS) : PLAYER_LEVELS[l] <= xp => l <= level
           /\ xp = 0 => level = 1
           /\ xp > 0 => getLevelForXP(xp - 1) <= level

C16_Witness ==
    /\ calc.fn = "getLevelForXP"
    /\ calc.returned
    /\ calc.args.xp = 599
    /\ calc.result = 3

\* ------------------------------------------------------------------ Elo
\* Ratings are taken a whole number of 400-point steps apart, for which
\* Math.pow(10, (opponentRating - playerRating) / 400) is a power of ten and the
\* expected score a fraction p/q.
MaxRating == 2600
MaxRatingGap == 2

RatingStep == 400
DefaultKFactor == 32
KFactors == {16, 25, DefaultKFactor}
MatchResults == {"win", "loss", "draw"}

RECURSIVE Pow10(_)
Pow10(n) == IF n = 0 THEN 1 ELSE 10 * Pow10(n - 1)

\* 1 / (1 + Math.pow(10, (opponentRating - playerRating) / 400))
ExpectedScore(playerRating, opponentRating) ==
    LET steps == (opponentRating - playerRating) \div RatingStep IN
    IF steps >= 0 THEN [p |-> 1, q |-> 1 + Pow10(steps)]
    ELSE [p |-> Pow10(0 - steps), q |-> 1 + Pow10(0 - steps)]

ActualScoreTwiceSwapped(result) == IF result = "win" THEN 0 ELSE IF result = "loss" THEN 2 ELSE 1

\* twice the actual score: result === 'win' ? 1 : result === 'loss' ? 0 : 0.5
ActualScoreTwice(result) == IF result = "win" THEN 2 ELSE IF result = "loss" THEN 0 ELSE 1

\* Math.round of the fraction num/den (den > 0): the nearest integer, a half rounding up
MathRound(num, den) == (2 * num + den) \div (2 * den)

calculateEloChange(playerRating, opponentRating, result, kFactor) ==
    LET e == ExpectedScore(playerRating, opponentRating) IN
    MathRound(kFactor * (ActualScoreTwice(result) * e.q - 2 * e.p), 2 * e.q)

Call_calculateEloChange ==
    /\ calc.fn = "calculateEloChange"
    /\ ~calc.returned
    /\ calc' = Returned(calculateEloChange(calc.args.playerRating, calc.args.opponentRating,
                                           calc.args.result, calc.args.kFactor))
    /\ UNCHANGED <<dispatchVars, join, trigger, restCall, txn>>

EloCalls ==
    {NewCall("calculateEloChange",
             [playerRating |-> r, opponentRating |-> r + RatingStep * g,
              result |-> res, kFactor |-> k]) :
        r \in {x \in 0..MaxRating : x % 100 = 0},
        g \in (0 - MaxRatingGap)..MaxRatingGap,
        res \in MatchResults, k \in KFactors}

\* the result of the same match seen from the opponent
Opposite(result) == IF result = "win" THEN "loss" ELSE IF result = "loss" THEN "win" ELSE "draw"

\* C17: calculateEloChange is symmetric: what a player gains by a result is what the
\* opponent loses by the opposite result, for all ratings and every K factor.
C17_EloSymmetric ==
    (calc.fn = "calculateEloChange" /\ calc.returned) =>
        calc.result = 0 - calculateEloChange(calc.args.opponentRating, calc.args.playerRating,
                                             Opposite(calc.args.result), calc.args.kFactor)

\* C18: between equally rated players and with K = 32, a win changes the rating by
\* more than 0, a loss by less than 0, and a draw by less than 5 in absolute value.
C18_EloEqualRatings ==
    (/\ calc.fn = "calculateEloChange"
     /\ calc.returned
     /\ calc.args.playerRating = calc.args.opponentRating
     /\ calc.args.kFactor = DefaultKFactor) =>
        /\ calc.args.result = "win" => calc.result > 0
        /\ calc.args.result = "loss" => calc.result < 0
        /\ calc.args.result = "draw" => (calc.result < 5 /\ calc.result > 0 - 5)

C18_Witness ==
    /\ calc.fn = "calculateEloChange"
    /\ calc.returned
    /\ calc.args.playerRating = 1500
    /\ calc.args.opponentRating = 1500
    /\ calc.args.kFactor = DefaultKFactor
    /\ calc.args.result = "loss"
    /\ calc.result = 0 - 16

\* ------------------------------------------------------------------ ranks
getRankAboveThreshold(rating) ==
    IF rating > 2500 THEN "Grandmaster"
    ELSE IF rating > 2200 THEN "Master"
    ELSE IF rating > 1900 THEN "Diamond"
    ELSE IF rating > 1600 THEN "Platinum"
    ELSE IF rating > 1300 THEN "Gold"
    ELSE IF rating > 1000 THEN "Silver"
    ELSE IF rating > 700 THEN "Bronze"
    ELSE "Unranked"

getRank(rating) ==
    IF rating >= 2500 THEN "Grandmaster"
    ELSE IF rating >= 2200 THEN "Master"
    ELSE IF rating >= 1900 THEN "Diamond"
    ELSE IF rating >= 1600 THEN "Platinum"
    ELSE IF rating >= 1300 THEN "Gold"
    ELSE IF rating >= 1000 THEN "Silver"
    ELSE IF rating >= 700 THEN "Bronze"
    ELSE "Unranked"

Call_getRank ==
    /\ calc.fn = "getRank"
    /\ ~calc.returned
    /\ calc' = Returned(getRank(calc.args.rating))
    /\ UNCHANGED <<dispatchVars, join, trigger, restCall, txn>>

RankCalls == {NewCall("getRank", [rating |-> r]) : r \in 0..MaxRating}

\* the bands in ascending order, each with the rating it starts at
RankThresholds == << 700, 1000, 1300, 1600, 1900, 2200, 2500 >>
RankBands == << "Bronze", "Silver", "Gold", "Platinum", "Diamond", "Master", "Grandmaster" >>

\* the position of a band in that order (0 for Unranked)
BandIndex(band) ==
    IF band = "Unranked" THEN 0 ELSE CHOOSE n \in 1..Len(RankBands) : RankBands[n] = band

\* C19: getRank(rating) is the band of the greatest threshold among 700, 1000, 1300,
\* 1600, 1900, 2200, 2500 that is <= rating, 'Unranked' below 700; a rating on a
\* threshold belongs to that threshold's band, and the band never goes down as the
\* rating goes up.
C19_RankBands ==
    (calc.fn = "getRank" /\ calc.returned) =>
        LET rating == calc.args.rating
            reached == {n \in 1..Len(RankThresholds) : RankThresholds[n] <= rating}
        IN /\ reached = {} => calc.result = "Unranked"
           /\ reached # {} =>
                calc.result = RankBands[CHOOSE n \in reached : \A m \in reached : m <= n]
           /\ rating > 0 => BandIndex(getRank(rating - 1)) <= BandIndex(calc.result)

C19_Witness ==
    /\ calc.fn = "getRank"
    /\ calc.returned
    /\ calc.args.rating = 1000
    /\ calc.result = "Silver"

\* ------------------------------------------------------------------ calculators
\* A JavaScript number is a fraction num/den, NaN or Infinity.
MaxCount == 3

Finite(num, den) == [kind |-> "finite", num |-> num, den |-> den]
NaN == [kind |-> "NaN", num |-> 0, den |-> 1]
Infinity == [kind |-> "Infinity", num |-> 0, den |-> 1]

\* a / b for a >= 0 and b >= 0
Divide(a, b) ==
    IF b # 0 THEN Finite(a, b) ELSE IF a = 0 THEN NaN ELSE Infinity

\* x * 100
Times100(x) == IF x.kind = "finite" THEN Finite(x.num * 100, x.den) ELSE x

\* Math.min(x, 100)
MathMin100(x) ==
    IF x.kind = "NaN" THEN NaN
    ELSE IF x.kind = "Infinity" THEN Finite(100, 1)
    ELSE IF x.num <= 100 * x.den THEN x ELSE Finite(100, 1)

calculateWinRate(wins, total) ==
    IF total = 0 THEN Finite(0, 1) ELSE Times100(Divide(wins, total))

calculatePercentage(part, total) ==
    IF total = 0 THEN Finite(0, 1) ELSE Times100(Divide(part, total))

\* a field of an object is truthy: present and not 0
Truthy(x) == x # Undefined /\ x # 0

isAchievementUnlocked(achievement) ==
    IF Truthy(achievement.unlockedAt) THEN TRUE
    ELSE IF achievement.progress # Undefined /\ achievement.maxProgress # Undefined
    THEN achievement.progress >= achievement.maxProgress
    ELSE FALSE

getAchievementProgress(achievement) ==
    IF Truthy(achievement.unlockedAt) THEN Finite(100, 1)
    ELSE IF achievement.progress = Undefined \/ achievement.maxProgress = Undefined
    THEN Finite(0, 1)
    ELSE MathMin100(Times100(Divide(achievement.progress, achievement.maxProgress)))

TraitTypes == {"Background", "Eyes"}
TraitValues == {"Blue", "Red"}

\* the loop over attributes: totalScore and traitCount after the first n
RECURSIVE RarityLoop(_, _, _)
RarityLoop(attributes, traitRarities, n) ==
    IF n = 0 THEN [totalScore |-> 0, traitCount |-> 0]
    ELSE LET before == RarityLoop(attributes, traitRarities, n - 1)
             attr == attributes[n]
             rarity == traitRarities[attr.trait_type][attr.value]
         IN IF Truthy(rarity)
            THEN [totalScore |-> before.totalScore + rarity,
                  traitCount |-> before.traitCount + 1]
            ELSE before

calculateRarityScore(attributes, traitRarities) ==
    LET end == RarityLoop(attributes, traitRarities, Len(attributes)) IN
    IF end.traitCount > 0 THEN Divide(end.totalScore, end.traitCount) ELSE Finite(0, 1)

Call_calculateWinRate ==
    /\ calc.fn = "calculateWinRate"
    /\ ~calc.returned
    /\ calc' = Returned(calculateWinRate(calc.args.wins, calc.args.total))
    /\ UNCHANGED <<dispatchVars, join, trigger, restCall, txn>>

Call_calculatePercentage ==
    /\ calc.fn = "calculatePercentage"
    /\ ~calc.returned
    /\ calc' = Returned(calculatePercentage(calc.args.part, calc.args.total))
    /\ UNCHANGED <<dispatchVars, join, trigger, restCall, txn>>

Call_getAchievementProgress ==
    /\ calc.fn = "getAchievementProgress"
    /\ ~calc.returned
    /\ calc' = Returned(getAchievementProgress(calc.args.achievement))
    /\ UNCHANGED <<dispatchVars, join, trigger, restCall, txn>>

Call_calculateRarityScore ==
    /\ calc.fn = "calculateRarityScore"
    /\ ~calc.returned
    /\ calc' = Returned(calculateRarityScore(calc.args.attributes, calc.args.traitRarities))
    /\ UNCHANGED <<dispatchVars, join, trigger, restCall, txn>>

\* a count, or the field is absent
Optional(S) == S \cup {Undefined}

CalculatorCalls ==
    {NewCall("calculateWinRate", [wins |-> w, total |-> t]) :
        w \in 0..MaxCount, t \in 0..MaxCount}
      \cup {NewCall("calculatePercentage", [part |-> p, total |-> t]) :
               p \in 0..MaxCount, t \in 0..MaxCount}
      \cup {NewCall("getAchievementProgress", [achievement |-> a]) :
               a \in [unlockedAt : Optional({1}), progress : Optional(0..MaxCount),
                      maxProgress : Optional(0..MaxCount)]}
      \cup {NewCall("calculateRarityScore", [attributes |-> attrs, traitRarities |-> tr]) :
               attrs \in UNION {[1..m -> [trait_type : TraitTypes, value : TraitValues]] :
                                m \in 0..2},
               tr \in [TraitTypes -> [TraitValues -> Optional(0..(MaxCount - 1))]]}

\* the attributes that have a rarity in the table
Matching(attributes, traitRarities) ==
    {n \in 1..Len(attributes) :
        Truthy(traitRarities[attributes[n].trait_type][attributes[n].value])}

\* C20: calculateWinRate, calculatePercentage, getAchievementProgress and
\* calculateRarityScore return a defined number for every input, and 0 when the
\* denominator is degenerate (zero total games, zero total, zero maxProgress, no
\* matching traits); getAchievementProgress stays within 0..100 and is 100 whenever
\* isAchievementUnlocked is true.
C20_CalculatorsAreTotal ==
    (/\ calc.fn \in {"calculateWinRate", "calculatePercentage", "getAchievementProgress",
                     "calculateRarityScore"}
     /\ calc.returned) =>
        /\ calc.result.kind = "finite"
        /\ calc.fn \in {"calculateWinRate", "calculatePercentage"} =>
             (calc.args.total = 0 => calc.result.num = 0)
        /\ calc.fn = "calculateRarityScore" =>
             (Matching(calc.args.attributes, calc.args.traitRarities) = {}
                 => calc.result.num = 0)
        /\ calc.fn = "getAchievementProgress" =>
             /\ calc.result.num >= 0
             /\ calc.result.num <= 100 * calc.result.den
             /\ isAchievementUnlocked(calc.args.achievement) =>
                  calc.result.num = 100 * calc.result.den
             /\ (calc.args.achievement.maxProgress = 0
                   /\ ~isAchievementUnlocked(calc.args.achievement)) => calc.result.num = 0

\* ------------------------------------------------------------------ registries
\* The registries are object literals. A property read on one yields the own
\* property, else the member inherited from Object.prototype, else undefined.
ObjectPrototype == {"constructor", "toString", "hasOwnProperty", "__proto__"}

JsUndefined == [kind |-> "undefined"]

Inherited(key) == [kind |-> "Object.prototype", member |-> key]

Get(obj, key) ==
    IF key \in DOMAIN obj THEN obj[key]
    ELSE IF key \in ObjectPrototype THEN Inherited(key)
    ELSE JsUndefined

\* !value for the values a registry read yields
Falsy(value) == value = JsUndefined

JsError(message) == [kind |-> "Error", message |-> message]

UnknownNetwork(network) ==
    JsError(<< "Unknown network: ", network, ". Use 'mainnet' or 'testnet'." >>)

BEAM_MAINNET == [kind |-> "NetworkConfig", name |-> "Beam Mainnet", chainId |-> 4337,
                 isTestnet |-> FALSE]

BEAM_TESTNET == [kind |-> "NetworkConfig", name |-> "Beam Testnet", chainId |-> 13337,
                 isTestnet |-> TRUE]

NETWORKS == [mainnet |-> BEAM_MAINNET, testnet |-> BEAM_TESTNET]

getNetworkConfig(network) ==
    LET config == Get(NETWORKS, network)
    IN  IF Falsy(config) THEN UnknownNetwork(network) ELSE config

\* the addresses the two entries differ in stand for the whole entry
MAINNET_CONTRACTS == [kind |-> "ContractAddresses",
                      wrappedBeam |-> "0x76BF5E7d2Bcb06b1444C0a2742780051D8D0E304",
                      sphereMarketplace |-> "0x8A3749936E723325C6b645a0901470cD9E790B94"]

TESTNET_CONTRACTS == [kind |-> "ContractAddresses",
                      wrappedBeam |-> "0x76BF5E7d2Bcb06b1444C0a2742780051D8D0E304",
                      sphereMarketplace |-> "0x1234567890123456789012345678901234567891"]

CONTRACTS == [mainnet |-> MAINNET_CONTRACTS, testnet |-> TESTNET_CONTRACTS]

getContracts(network) ==
    LET contracts == Get(CONTRACTS, network)
    IN  IF Falsy(contracts) THEN UnknownNetwork(network) ELSE contracts

Call_getNetworkConfig ==
    /\ calc.fn = "getNetworkConfig"
    /\ ~calc.returned
    /\ calc' = Returned(getNetworkConfig(calc.args.network))
    /\ UNCHANGED <<dispatchVars, join, trigger, restCall, txn>>

Call_getContracts ==
    /\ calc.fn = "getContracts"
    /\ ~calc.returned
    /\ calc' = Returned(getContracts(calc.args.network))
    /\ UNCHANGED <<dispatchVars, join, trigger, restCall, txn>>

NetworkNames == {"mainnet", "testnet", "Mainnet", "invalid", ""} \cup ObjectPrototype

RegistryCalls ==
    {NewCall(fn, [network |-> n]) : fn \in {"getNetworkConfig", "getContracts"},
                                    n \in NetworkNames}

\* C21: getNetworkConfig and getContracts return the registered entry for
\* 'mainnet' and 'testnet' and throw the unknown-network error for every other
\* network key.
C21_RegistryLookup ==
    (calc.fn \in {"getNetworkConfig", "getContracts"} /\ calc.returned) =>
        LET registry == IF calc.fn = "getNetworkConfig" THEN NETWORKS ELSE CONTRACTS
            network  == calc.args.network
        IN  IF network \in {"mainnet", "testnet"}
            THEN calc.result = registry[network]
            ELSE calc.result.kind = "Error"

\* ------------------------------------------------------------------ tokens
\* Symbols are sequences of characters, so that letter case can be changed.
LowerLetters == << "a", "b", "c", "d", "e", "h", "k", "m", "n", "o", "r", "s", "t", "u",
                   "v", "w", "x" >>
UpperLetters == << "A", "B", "C", "D", "E", "H", "K", "M", "N", "O", "R", "S", "T", "U",
                   "V", "W", "X" >>

UpperChar(c) ==
    IF \E n \in 1..Len(LowerLetters) : LowerLetters[n] = c
    THEN UpperLetters[CHOOSE n \in 1..Len(LowerLetters) : LowerLetters[n] = c]
    ELSE c

LowerChar(c) ==
    IF \E n \in 1..Len(UpperLetters) : UpperLetters[n] = c
    THEN LowerLetters[CHOOSE n \in 1..Len(UpperLetters) : UpperLetters[n] = c]
    ELSE c

\* String.prototype.toUpperCase
toUpperCase(str) == [n \in 1..Len(str) |-> UpperChar(str[n])]

TokenInfo(name, symbol, decimals, address) ==
    [kind |-> "TokenInfo", name |-> name, symbol |-> symbol, decimals |-> decimals,
     address |-> address]

NATIVE_BEAM ==
    TokenInfo("BEAM", << "B", "E", "A", "M" >>, 18,
              "0x0000000000000000000000000000000000000000")

WBEAM_TOKEN ==
    TokenInfo("Wrapped BEAM", << "W", "B", "E", "A", "M" >>, 18,
              "0x76BF5E7d2Bcb06b1444C0a2742780051D8D0E304")

\* a token table: the keys of the object literal, each with its entry
MAINNET_TOKENS ==
    { << << "B", "E", "A", "M" >>, NATIVE_BEAM >>,
      << << "W", "B", "E", "A", "M" >>, WBEAM_TOKEN >>,
      << << "M", "C" >>,
         TokenInfo("Merit Circle", << "M", "C" >>, 18,
                   "0x949D48EcA67b17269629c7194F4b727d4Ef9E5d6") >>,
      << << "U", "S", "D", "C" >>,
         TokenInfo("USD Coin", << "U", "S", "D", "C" >>, 6,
                   "0xA7D7079b0FEaD91F3e65f86E8915Cb59c1a4C664") >>,
      << << "U", "S", "D", "T" >>,
         TokenInfo("Tether USD", << "U", "S", "D", "T" >>, 6,
                   "0xc7198437980c041c805A1EDcbA50c1Ce5db95118") >>,
      << << "A", "V", "A", "X" >>,
         TokenInfo("Avalanche", << "A", "V", "A", "X" >>, 18,
                   "0xB31f66AA3C1e785363F0875A1B74E27b85FD66c7") >>,
      << << "E", "T", "H" >>,
         TokenInfo("Wrapped Ether", << "W", "E", "T", "H" >>, 18,
                   "0x49D5c2BdFfac6CE2BFdB6640F4F80f226bc10bAB") >> }

TESTNET_TOKENS ==
    { << << "B", "E", "A", "M" >>, NATIVE_BEAM >>,
      << << "W", "B", "E", "A", "M" >>, WBEAM_TOKEN >>,
      << << "M", "C" >>,
         TokenInfo("Merit Circle (Test)", << "t", "M", "C" >>, 18,
                   "0x1234567890123456789012345678901234567890") >>,
      << << "U", "S", "D", "C" >>,
         TokenInfo("USD Coin (Test)", << "t", "U", "S", "D", "C" >>, 6,
                   "0x2345678901234567890123456789012345678901") >> }

TOKENS == [mainnet |-> [kind |-> "tokens", table |-> MAINNET_TOKENS],
           testnet |-> [kind |-> "tokens", table |-> TESTNET_TOKENS]]

\* networkTokens[key]: an upper-cased key names no member of Object.prototype,
\* and a member of Object.prototype has no property of such a name
GetToken(networkTokens, key) ==
    IF networkTokens.kind = "tokens" /\ \E e \in networkTokens.table : e[1] = key
    THEN (CHOOSE e \in networkTokens.table : e[1] = key)[2]
    ELSE JsUndefined

getToken(network, symbol) ==
    LET networkTokens == Get(TOKENS, network)
    IN  IF Falsy(networkTokens) THEN JsUndefined
        ELSE GetToken(networkTokens, toUpperCase(symbol))

Call_getToken ==
    /\ calc.fn = "getToken"
    /\ ~calc.returned
    /\ calc' = Returned(getToken(calc.args.network, calc.args.symbol))
    /\ UNCHANGED <<dispatchVars, join, trigger, restCall, txn>>

\* the letter-case variants of a symbol
CaseVariants(symbol) ==
    { [n \in 1..Len(symbol) |-> IF n \in U THEN UpperChar(symbol[n])
                                 ELSE LowerChar(symbol[n])] :
      U \in SUBSET (1..Len(symbol)) }

\* the tokens registered for a network
Registered(network) ==
    IF network \in DOMAIN TOKENS THEN {e[2] : e \in TOKENS[network].table} ELSE {}

Symbols ==
    UNION { CaseVariants(s) :
            s \in {e[1] : e \in MAINNET_TOKENS \cup TESTNET_TOKENS}
                  \cup {t.symbol : t \in Registered("mainnet") \cup Registered("testnet")}
                  \cup { << "U", "N", "K", "N", "O", "W", "N" >> } }

TokenCalls ==
    {NewCall("getToken", [network |-> n, symbol |-> s]) :
        n \in {"mainnet", "testnet", "invalid", "constructor"}, s \in Symbols}

\* C22: getToken returns a registered token for every letter-case variant of
\* its symbol, and undefined for a symbol no registered token of the network
\* carries.
C22_TokenLookupByCase ==
    (calc.fn = "getToken" /\ calc.returned) =>
        LET carriers == {t \in Registered(calc.args.network) :
                            calc.args.symbol \in CaseVariants(t.symbol)}
        IN  IF carriers = {} THEN calc.result = JsUndefined
            ELSE calc.result \in carriers

\* ------------------------------------------------------------------ truncateAddress
MaxAddressLen == 5
MaxKeepChars == 3

AddressChars == {"0", "x", "a"}

Max(a, b) == IF a >= b THEN a ELSE b

\* String.prototype.slice(start, end): a negative index counts from the end,
\* and both indices are clamped to the string
SliceIndex(str, n) == IF n < 0 THEN Max(Len(str) + n, 0) ELSE Min(n, Len(str))

Slice(str, start, end) ==
    LET from == SliceIndex(str, start)
        to   == SliceIndex(str, end)
    IN  IF from < to THEN SubSeq(str, from + 1, to) ELSE << >>

\* slice(start) with the end left out
SliceFrom(str, start) == Slice(str, start, Len(str))

Ellipsis == << ".", ".", "." >>

truncateAddress(address, chars) ==
    IF address = << >> THEN << >>
    ELSE Slice(address, 0, chars + 2) \o Ellipsis \o SliceFrom(address, 0 - chars)

Call_truncateAddress ==
    /\ calc.fn = "truncateAddress"
    /\ ~calc.returned
    /\ calc' = Returned(truncateAddress(calc.args.address, calc.args.chars))
    /\ UNCHANGED <<dispatchVars, join, trigger, restCall, txn>>

TruncateCalls ==
    {NewCall("truncateAddress", [address |-> a, chars |-> k]) :
        a \in UNION {[1..n -> AddressChars] : n \in 0..MaxAddressLen},
        k \in 0..MaxKeepChars}

\* the first and the last n characters of a string (all of it when shorter)
FirstChars(str, n) == SubSeq(str, 1, Min(n, Len(str)))
LastChars(str, n) == SubSeq(str, Len(str) - Min(n, Len(str)) + 1, Len(str))

\* C23: truncateAddress returns '' for the empty address and otherwise the
\* first keepChars+2 characters, '...', and the last keepChars characters.
C23_TruncateAddress ==
    (calc.fn = "truncateAddress" /\ calc.returned) =>
        calc.result =
            IF calc.args.address = << >> THEN << >>
            ELSE FirstChars(calc.args.address, calc.args.chars + 2) \o Ellipsis
                 \o LastChars(calc.args.address, calc.args.chars)

\* ------------------------------------------------------------------ helper calls: specification
InitCalc ==
    /\ DispatchIdle
    /\ join = NoJoin
    /\ trigger = NoTrigger
    /\ restCall = NoRest
    /\ calc \in UnitCalls \cup BalanceCalls \cup LevelCalls
             \cup EloCalls \cup RankCalls \cup CalculatorCalls
             \cup RegistryCalls \cup TokenCalls
             \cup TruncateCalls
    /\ txn = NoTxn

NextCalc ==
    \/ Call_weiToBeam
    \/ Call_beamToWei
    \/ Call_weiToToken
    \/ Call_tokenToWei
    \/ Call_weiToGwei
    \/ Call_gweiToWei
    \/ ConvertBack
    \/ Call_formatBalance
    \/ Call_getLevelForXP
    \/ Call_calculateEloChange
    \/ Call_getRank
    \/ Call_calculateWinRate
    \/ Call_calculatePercentage
    \/ Call_getAchievementProgress
    \/ Call_calculateRarityScore
    \/ Call_getNetworkConfig
    \/ Call_getContracts
    \/ Call_getToken
    \/ Call_truncateAddress

SpecCalc == InitCalc /\ [][NextCalc]_vars

\* ------------------------------------------------------------------ signing operations
\* One state-changing operation of an executor, called with the arguments the
\* executor declares, from its first statement to its return or failure: the
\* reads it awaits, how it gets hold of the wallet, and the transactions it
\* hands to the transport.  The transaction a replacement refers to sits on a
\* chain that may mine it at any moment.
MaxNonce == 1

ZeroAddress == "0x0000000000000000000000000000000000000000"
CustomToken == "0xToken"

\* credentials.privateKey: left empty, or a key
PrivateKeys == {"", "0xkey"}

SignedTransfers == TransferOps \cup {"transferNft"}
ContractOps == {"writeContract", "deployContract"}
BridgeOps == {"bridgeFromEthereum", "bridgeFromAvalanche", "bridgeToEthereum"}
ReplaceOps == {"speedUpTransaction", "cancelTransaction"}
SigningOps == SignedTransfers \cup ContractOps \cup BridgeOps \cup ReplaceOps
                  \cup {"sendTransaction"}

\* the options of the bridge operations' `asset` parameter
Assets == {"BEAM", "USDC", "USDT", "WETH", "custom"}

\* where speedUpTransaction takes the new fee from: speedUpOptions.maxFeePerGas,
\* originalTx.maxFeePerGas, or client.getGasPrice()
FeeSources == {"option", "original", "network"}

\* constructor: if (config.privateKey) this.wallet = new Wallet(...)
NewWallet(privateKey) == IF privateKey # "" THEN "wallet" ELSE "null"

Value(v) == [threw |-> FALSE, value |-> v, error |-> ""]
Throw(msg) == [threw |-> TRUE, value |-> "null", error |-> msg]

\* BeamClient.getWallet
getWallet(wallet) == Value(wallet)

getSignerOrProvider(wallet) == IF wallet = "null" THEN Value("provider") ELSE Value(wallet)

\* BeamClient.getSigner
getSigner(wallet) ==
    IF wallet = "null"
    THEN Throw("No wallet configured. Private key required for signing.")
    ELSE Value(wallet)

\* BeamClient.getAddress
getAddress(wallet) ==
    IF wallet = "null" THEN Throw("No wallet configured. Private key required.")
    ELSE Value(wallet)

\* executeNft: const wallet = client.getWallet(); if (!wallet) throw ...
WalletOrThrow(wallet) ==
    IF getWallet(wallet).value = "null" THEN Throw("Private key required for transfers")
    ELSE getWallet(wallet)

Acquire(how) == [kind |-> "acquire", what |-> how, via |-> ""]
Read(method) == [kind |-> "read", what |-> method, via |-> ""]
\* via "signer": through what getSigner returned; via "wallet": through what
\* getWallet returned, unchecked
Send(what, via) == [kind |-> "send", what |-> what, via |-> via]

\* asset === 'custom' ? tokenAddress : undefined
TokenArgument(asset, tokenAddress) == IF asset = "custom" THEN tokenAddress ELSE ""

\* BridgeClient.bridgeToChain after the wallet address was read
bridgeToChain(tokenAddress) ==
    << Acquire("getSigner"), Read("estimateBridgeFee") >> \o
    (IF tokenAddress = "" \/ tokenAddress = ZeroAddress
     THEN << Send("bridgeNative", "signer") >>
     ELSE << Send("approve", "signer"), Send("bridgeToken", "signer") >>)

\* the statements of an operation that await something or may throw, in order
StepsOf(op, asset, tokenAddress, feeSource) ==
    CASE op \in {"transferBeam", "wrapBeam", "unwrapBeam"} ->
           << Acquire("getSigner"), Send("transfer", "signer") >>
      [] op = "transferToken" ->
           << Read("getTokenInfo"), Acquire("getSigner"), Send("transfer", "signer") >>
      [] op = "transferNft" ->
           << Acquire("getWallet"), Acquire("getSigner"), Send("transfer", "signer") >>
      [] op = "writeContract" ->
           << Read("getChainId"), Acquire("getSigner"), Send("contractCall", "signer") >>
      [] op = "deployContract" ->
           << Read("getChainId"), Send("deploy", "wallet") >>
      [] op = "sendTransaction" ->
           << Send("raw", "wallet") >>
      [] op = "speedUpTransaction" ->
           << Read("getTransaction") >> \o
           (IF feeSource = "network" THEN << Read("getGasPrice") >> ELSE << >>) \o
           << Send("replacement", "wallet") >>
      [] op = "cancelTransaction" ->
           << Read("getTransaction"), Read("getGasPrice"), Send("cancellation", "wallet") >>
      [] op \in BridgeOps ->
           << Acquire("getAddress") >> \o bridgeToChain(TokenArgument(asset, tokenAddress))

NewTxn(op, privateKey, asset, tokenAddress, feeSource, original) ==
    [op |-> op, privateKey |-> privateKey, asset |-> asset, tokenAddress |-> tokenAddress,
     feeSource |-> feeSource, wallet |-> NewWallet(privateKey), signer |-> "none",
     todo |-> StepsOf(op, asset, tokenAddress, feeSource),
     original |-> original, seen |-> Undefined, log |-> << >>,
     status |-> "running", error |-> ""]

Running == txn.op \in SigningOps /\ txn.status = "running"

Fail(t, msg) == [t EXCEPT !.status = "threw", !.error = msg, !.todo = << >>]

Advance(t) == [t EXCEPT !.todo = Tail(@)]

\* the operation gets hold of the wallet
TxAcquire ==
    /\ Running
    /\ txn.todo # << >>
    /\ Head(txn.todo).kind = "acquire"
    /\ LET how == Head(txn.todo).what
           got == IF how = "getSigner" THEN getSigner(txn.wallet)
                  ELSE IF how = "getAddress" THEN getAddress(txn.wallet)
                  ELSE WalletOrThrow(txn.wallet)
       IN  txn' = IF got.threw THEN Fail(txn, got.error)
                  ELSE IF how = "getSigner" THEN [Advance(txn) EXCEPT !.signer = got.value]
                  ELSE Advance(txn)
    /\ UNCHANGED <<dispatchVars, join, trigger, restCall, calc>>

\* an awaited read answers; getTransaction answers with what the chain holds
TxRead(ok) ==
    /\ Running
    /\ txn.todo # << >>
    /\ Head(txn.todo).kind = "read"
    /\ LET method == Head(txn.todo).what IN
       txn' = IF ~ok
              THEN (IF method = "estimateBridgeFee" THEN Advance(txn)
                    ELSE Fail(txn, "transport error"))
              ELSE IF method # "getTransaction" THEN Advance(txn)
              ELSE IF txn.original.status = "missing"
              THEN Fail(txn, "Transaction not found")
              ELSE IF txn.original.status = "mined"
              THEN Fail(txn, "Transaction is already confirmed")
              ELSE [Advance(txn) EXCEPT !.seen = txn.original.nonce]
    /\ UNCHANGED <<dispatchVars, join, trigger, restCall, calc>>

\* the transaction a send step hands over
Transaction(t, what) ==
    [what |-> what,
     nonce |-> IF what \in {"replacement", "cancellation"} THEN t.seen ELSE Undefined,
     value |-> IF what = "bridgeNative" THEN "amount + fee"
               ELSE IF what = "bridgeToken" THEN "fee" ELSE "",
     originalWas |-> t.original.status]

\* signer.sendTransaction / a contract method call / wallet.sendTransaction:
\* a TypeError on null, else the transaction goes to the transport, which
\* accepts or rejects it
TxSend(accepted) ==
    /\ Running
    /\ txn.todo # << >>
    /\ Head(txn.todo).kind = "send"
    /\ LET step == Head(txn.todo)
           runner == IF step.via = "signer" THEN txn.signer ELSE getWallet(txn.wallet).value
           sent == [txn EXCEPT !.log = Append(@, Transaction(txn, step.what))]
       IN  txn' = IF runner = "null" THEN Fail(txn, "TypeError")
                  ELSE IF accepted THEN Advance(sent)
                  ELSE Fail(sent, "transport error")
    /\ UNCHANGED <<dispatchVars, join, trigger, restCall, calc>>

\* return { ... }
TxReturn ==
    /\ Running
    /\ txn.todo = << >>
    /\ txn' = [txn EXCEPT !.status = "returned"]
    /\ UNCHANGED <<dispatchVars, join, trigger, restCall, calc>>

\* the chain mines the original transaction
ChainMines ==
    /\ txn.op \in SigningOps
    /\ txn.original.status = "pending"
    /\ txn' = [txn EXCEPT !.original.status = "mined"]
    /\ UNCHANGED <<dispatchVars, join, trigger, restCall, calc>>

NoOriginal == [status |-> "missing", nonce |-> Undefined]

Originals == {NoOriginal} \cup [status : {"pending", "mined"}, nonce : 0..MaxNonce]

TxnCalls ==
    {NewTxn(op, key, "BEAM", "", "option", NoOriginal) :
        op \in SigningOps \ (BridgeOps \cup ReplaceOps), key \in PrivateKeys}
    \cup {NewTxn(op, key, asset, IF asset = "custom" THEN token ELSE "", "option", NoOriginal) :
        op \in BridgeOps, key \in PrivateKeys, asset \in Assets,
        token \in {ZeroAddress, CustomToken}}
    \cup {NewTxn(op, key, "BEAM", "", IF op = "speedUpTransaction" THEN fee ELSE "network", o) :
        op \in ReplaceOps, key \in PrivateKeys, fee \in FeeSources, o \in Originals}

InitTxn ==
    /\ DispatchIdle
    /\ join = NoJoin
    /\ trigger = NoTrigger
    /\ restCall = NoRest
    /\ calc = NoCalc
    /\ txn \in TxnCalls

NextTxn ==
    \/ TxAcquire
    \/ \E ok \in BOOLEAN : TxRead(ok)
    \/ \E accepted \in BOOLEAN : TxSend(accepted)
    \/ TxReturn
    \/ ChainMines

SpecTxn == InitTxn /\ [][NextTxn]_vars

\* the caller selected something other than native BEAM
NonNativeSelection ==
    /\ txn.asset # "BEAM"
    /\ ~(txn.asset = "custom" /\ txn.tokenAddress = ZeroAddress)

\* C28: a bridge operation moves the asset the caller selected: a non-native
\* selection never yields a native bridge transaction carrying the amount as
\* value, and a token bridge call comes after its approval was submitted.
C28_BridgeMovesSelectedAsset ==
    txn.op \in BridgeOps =>
        \A n \in 1..Len(txn.log) :
            /\ NonNativeSelection => txn.log[n].what # "bridgeNative"
            /\ txn.log[n].what = "bridgeToken" =>
                 \E m \in 1..(n - 1) : txn.log[m].what = "approve"

C30_ReplacesOnlyUnconfirmed ==
    txn.op \in ReplaceOps =>
        /\ txn.original.status = "missing" => txn.log = << >>
        /\ \A n \in 1..Len(txn.log) :
             /\ txn.log[n].nonce = txn.original.nonce
             /\ txn.log[n].originalWas # "mined"

====
